---- MODULE Spec2Model ----
(***************************************************************************)
(* Model of the changelog engine of ai-context-commit-tools                *)
(* (class ChangelogGenerator).  Texts are TLA+ strings and every regular   *)
(* expression of the source is translated character by character.          *)
(*                                                                         *)
(* Input domain: commit messages and documents are ASCII, hold no "$"      *)
(* (String.replace patterns are therefore inert) and no tab or carriage    *)
(* return.                                                                 *)
(***************************************************************************)
EXTENDS Integers, Sequences, FiniteSets, TLC

(***************************************************************************)
(* String primitives (JavaScript String methods).                          *)
(***************************************************************************)
Min(S) == CHOOSE x \in S : \A y \in S : x <= y

Max(S) == CHOOSE x \in S : \A y \in S : x >= y

Take(s, n) == SubSeq(s, 1, n)

Drop(s, n) == SubSeq(s, n + 1, Len(s))

\* s.charAt(i - 1): the empty string outside the text
At(s, i) == IF i >= 1 /\ i <= Len(s) THEN SubSeq(s, i, i) ELSE ""

\* p occurs in s at (1-based) position i
IsAt(s, i, p) == i >= 1 /\ i + Len(p) - 1 <= Len(s) /\ SubSeq(s, i, i + Len(p) - 1) = p

StartsWith(s, p) == IsAt(s, 1, p)

\* s.indexOf(p, from - 1) + 1: 0 when p does not occur at or after from
IndexOf(s, p, from) ==
  LET I == {i \in from..(Len(s) - Len(p) + 1) : IsAt(s, i, p)}
  IN IF I = {} THEN 0 ELSE Min(I)

Includes(s, p) == IndexOf(s, p, 1) # 0

\* the number of (non-overlapping) occurrences of p in s
Occurrences(s, p) == Cardinality({i \in 1..Len(s) : IsAt(s, i, p)})

LowerCaseLetters ==
  {"a","b","c","d","e","f","g","h","i","j","k","l","m",
   "n","o","p","q","r","s","t","u","v","w","x","y","z"}

UpperCaseLetters ==
  {"A","B","C","D","E","F","G","H","I","J","K","L","M",
   "N","O","P","Q","R","S","T","U","V","W","X","Y","Z"}

Digits == {"0","1","2","3","4","5","6","7","8","9"}

\* \s of a regular expression, over the input domain
WhiteSpace == {" ", "\n"}

\* \w of a regular expression
WordChars == LowerCaseLetters \cup UpperCaseLetters \cup Digits \cup {"_"}

LowerOf ==
  [A |-> "a", B |-> "b", C |-> "c", D |-> "d", E |-> "e", F |-> "f", G |-> "g",
   H |-> "h", I |-> "i", J |-> "j", K |-> "k", L |-> "l", M |-> "m", N |-> "n",
   O |-> "o", P |-> "p", Q |-> "q", R |-> "r", S |-> "s", T |-> "t", U |-> "u",
   V |-> "v", W |-> "w", X |-> "x", Y |-> "y", Z |-> "z"]

LowerChar(c) == IF c \in UpperCaseLetters THEN LowerOf[c] ELSE c

RECURSIVE ToLowerCase(_)
ToLowerCase(s) ==
  IF s = "" THEN "" ELSE LowerChar(At(s, 1)) \o ToLowerCase(Drop(s, 1))

\* s.trim()
Trim(s) ==
  LET I == {i \in 1..Len(s) : At(s, i) \notin WhiteSpace}
  IN IF I = {} THEN "" ELSE SubSeq(s, Min(I), Max(I))

\* the end of the longest run of characters of class C that starts at i
\* (i - 1 when the character at i is not in C)
RunEnd(s, i, C) ==
  LET Stop == {j \in i..Len(s) : At(s, j) \notin C}
  IN IF Stop = {} THEN Len(s) ELSE Min(Stop) - 1

\* s.replace(/\s+/g, ' ')
RECURSIVE CollapseWhiteSpace(_)
CollapseWhiteSpace(s) ==
  LET I == {i \in 1..Len(s) : At(s, i) \in WhiteSpace}
  IN IF I = {} THEN s
     ELSE LET i == Min(I)
              e == RunEnd(s, i, WhiteSpace)
          IN Take(s, i - 1) \o " " \o CollapseWhiteSpace(Drop(s, e))

\* s.split(sep) for a non-empty separator
RECURSIVE Split(_, _)
Split(s, sep) ==
  LET i == IndexOf(s, sep, 1)
  IN IF i = 0 THEN <<s>>
     ELSE <<Take(s, i - 1)>> \o Split(Drop(s, i + Len(sep) - 1), sep)

\* parts.join(sep)
RECURSIVE Join(_, _)
Join(parts, sep) ==
  IF parts = <<>> THEN ""
  ELSE IF Len(parts) = 1 THEN parts[1]
  ELSE parts[1] \o sep \o Join(Tail(parts), sep)

\* seq.filter(x => x in S), the order kept
RECURSIVE SelectIn(_, _)
SelectIn(seq, S) ==
  IF seq = <<>> THEN <<>>
  ELSE IF Head(seq) \in S THEN <<Head(seq)>> \o SelectIn(Tail(seq), S)
  ELSE SelectIn(Tail(seq), S)

Range(seq) == {seq[i] : i \in 1..Len(seq)}

(***************************************************************************)
(* Commit types and section titles.                                        *)
(***************************************************************************)
\* the alternatives of conventionalRegex, in its order
CommitType ==
  <<"feat", "fix", "docs", "style", "refactor", "perf", "test", "chore", "ci",
    "build", "security">>

typeTitles ==
  [feat |-> "Added", fix |-> "Fixed", perf |-> "Performance",
   security |-> "Security", refactor |-> "Changed", docs |-> "Documentation",
   test |-> "Testing", chore |-> "Maintenance", ci |-> "CI/CD",
   build |-> "Build", style |-> "Code Style"]

\* Object.values(this.typeTitles): the insertion order of the literal
sectionOrder ==
  <<"Added", "Fixed", "Performance", "Security", "Changed", "Documentation",
    "Testing", "Maintenance", "CI/CD", "Build", "Code Style">>

(***************************************************************************)
(* Parsing, worthiness filter, intra-run deduplication.                    *)
(***************************************************************************)
\* inferCommitType with the test group checked before the fix group
inferCommitTypeTestFirst(message) ==
  LET lower == ToLowerCase(message)
  IN IF Includes(lower, "test") \/ Includes(lower, "spec") THEN "test"
     ELSE IF Includes(lower, "fix") \/ Includes(lower, "bug") \/ Includes(lower, "error")
       THEN "fix"
     ELSE IF Includes(lower, "doc") \/ Includes(lower, "readme") THEN "docs"
     ELSE IF Includes(lower, "refactor") \/ Includes(lower, "cleanup") THEN "refactor"
     ELSE IF Includes(lower, "performance") \/ Includes(lower, "optimize") THEN "perf"
     ELSE IF Includes(lower, "security") \/ Includes(lower, "vulnerability")
       THEN "security"
     ELSE IF Includes(lower, "ci") \/ Includes(lower, "pipeline")
             \/ Includes(lower, "workflow") THEN "ci"
     ELSE IF Includes(lower, "dependency") \/ Includes(lower, "deps")
             \/ Includes(lower, "version") THEN "chore"
     ELSE "feat"

inferCommitType(message) ==
  LET lower == ToLowerCase(message)
  IN IF Includes(lower, "fix") \/ Includes(lower, "bug") \/ Includes(lower, "error")
       THEN "fix"
     ELSE IF Includes(lower, "test") \/ Includes(lower, "spec") THEN "test"
     ELSE IF Includes(lower, "doc") \/ Includes(lower, "readme") THEN "docs"
     ELSE IF Includes(lower, "refactor") \/ Includes(lower, "cleanup") THEN "refactor"
     ELSE IF Includes(lower, "performance") \/ Includes(lower, "optimize") THEN "perf"
     ELSE IF Includes(lower, "security") \/ Includes(lower, "vulnerability")
       THEN "security"
     ELSE IF Includes(lower, "ci") \/ Includes(lower, "pipeline")
             \/ Includes(lower, "workflow") THEN "ci"
     ELSE IF Includes(lower, "dependency") \/ Includes(lower, "deps")
             \/ Includes(lower, "version") THEN "chore"
     ELSE "feat"

\* parseConventionalCommit with /^(\w+): (.+)$/: any word is taken as a type
parseAnyWordAsType(message) ==
  LET colon == IndexOf(message, ": ", 1)
  IN IF colon > 1 /\ Len(message) > colon + 1
        /\ \A i \in 1..(colon - 1) : At(message, i) \in WordChars
       THEN [type |-> Take(message, colon - 1), scope |-> "",
             description |-> Drop(message, colon + 1)]
       ELSE [type |-> inferCommitType(message), scope |-> "", description |-> message]

\* /^(feat|...|security)(?:\(([^)]+)\))?: (.+)$/ on a one-line message.
\* scope "" stands for undefined.
parseConventionalCommit(message) ==
  LET types == {t \in Range(CommitType) : StartsWith(message, t)}
      Fallback == [type |-> inferCommitType(message), scope |-> "",
                   description |-> message]
  IN IF types = {} THEN Fallback
     ELSE LET t == CHOOSE x \in types : TRUE
              rest == Drop(message, Len(t))
              close == IndexOf(rest, ")", 1)
              scoped == StartsWith(rest, "(") /\ close > 2
              after == IF scoped THEN Drop(rest, close) ELSE rest
          IN IF StartsWith(after, ": ") /\ Len(after) > 2
                  /\ ~Includes(Drop(after, 2), "\n")
               THEN [type |-> t,
                     scope |-> IF scoped THEN SubSeq(rest, 2, close - 1) ELSE "",
                     description |-> Drop(after, 2)]
               ELSE Fallback

\* /found \d+ staged files/
FoundStagedFiles(d) ==
  \E i \in 1..Len(d) :
    /\ IsAt(d, i, "found ")
    /\ LET e == RunEnd(d, i + 6, Digits)
       IN e >= i + 6 /\ IsAt(d, e + 1, " staged files")

\* /^\w+\.\w+$/
BareFileName(d) ==
  \E i \in 2..(Len(d) - 1) :
    /\ At(d, i) = "."
    /\ \A j \in 1..Len(d) : j # i => At(d, j) \in WordChars

MeaninglessWords ==
  {"update", "fix", "add", "remove", "change", "delete", "create", "test", "debug"}

\* isChangelogWorthy without toLowerCase().trim()
isChangelogWorthyCaseSensitive(entry) ==
  LET description == entry.description
  IN ~ \/ StartsWith(description, "merge ")
       \/ FoundStagedFiles(description)
       \/ Includes(description, "generating ai commit message")
       \/ Includes(description, "ai message generated")
       \/ description = "wip"
       \/ description = "temp"
       \/ description = "tmp"
       \/ BareFileName(description)
       \/ description \in MeaninglessWords

isChangelogWorthy(entry) ==
  LET description == Trim(ToLowerCase(entry.description))
  IN ~ \/ StartsWith(description, "merge ")
       \/ FoundStagedFiles(description)
       \/ Includes(description, "generating ai commit message")
       \/ Includes(description, "ai message generated")
       \/ description = "wip"
       \/ description = "temp"
       \/ description = "tmp"
       \/ BareFileName(description)
       \/ description \in MeaninglessWords

normalizeDescription(description) ==
  Trim(CollapseWhiteSpace(ToLowerCase(description)))

EntryKey(entry) ==
  entry.type \o ":" \o entry.scope \o ":" \o normalizeDescription(entry.description)

\* the Map of deduplicateEntries as the sequence of its values in insertion order
RECURSIVE DedupInto(_, _)
DedupInto(seen, entries) ==
  IF entries = <<>> THEN seen
  ELSE LET entry == Head(entries)
           I == {i \in 1..Len(seen) : EntryKey(seen[i]) = EntryKey(entry)}
       IN IF I = {} THEN DedupInto(Append(seen, entry), Tail(entries))
          ELSE LET i == CHOOSE x \in I : TRUE
               IN IF Len(entry.description) > Len(seen[i].description)
                    THEN DedupInto([seen EXCEPT ![i] = entry], Tail(entries))
                    ELSE DedupInto(seen, Tail(entries))

deduplicateEntries(entries) == DedupInto(<<>>, entries)

RECURSIVE FilterWorthy(_)
FilterWorthy(entries) ==
  IF entries = <<>> THEN <<>>
  ELSE IF isChangelogWorthy(Head(entries))
    THEN <<Head(entries)>> \o FilterWorthy(Tail(entries))
    ELSE FilterWorthy(Tail(entries))

\* commits.map(commit => ...): cs is a sequence of [hash, message]
ParsedEntries(cs) ==
  [i \in 1..Len(cs) |->
     [type |-> parseConventionalCommit(cs[i].message).type,
      scope |-> parseConventionalCommit(cs[i].message).scope,
      description |-> parseConventionalCommit(cs[i].message).description,
      hash |-> cs[i].hash]]

parseCommits(cs) == deduplicateEntries(FilterWorthy(ParsedEntries(cs)))

(***************************************************************************)
(* Grouping and rendering.                                                 *)
(***************************************************************************)
RECURSIVE SelectTitle(_, _)
SelectTitle(entries, title) ==
  IF entries = <<>> THEN <<>>
  ELSE IF typeTitles[Head(entries).type] = title
    THEN <<Head(entries)>> \o SelectTitle(Tail(entries), title)
    ELSE SelectTitle(Tail(entries), title)

\* the sections with at least one entry, in sectionOrder
RECURSIVE GroupFrom(_, _)
GroupFrom(entries, k) ==
  IF k > Len(sectionOrder) THEN <<>>
  ELSE LET grouped == SelectTitle(entries, sectionOrder[k])
       IN IF grouped = <<>> THEN GroupFrom(entries, k + 1)
          ELSE <<[title |-> sectionOrder[k], entries |-> grouped]>>
               \o GroupFrom(entries, k + 1)

\* A grouping that keeps the order in which the titles first appear
\* (Object.keys(grouped) instead of Object.values(this.typeTitles))
RECURSIVE TitlesAsInserted(_, _)
TitlesAsInserted(entries, seen) ==
  IF entries = <<>> THEN seen
  ELSE IF typeTitles[Head(entries).type] \in Range(seen)
    THEN TitlesAsInserted(Tail(entries), seen)
    ELSE TitlesAsInserted(Tail(entries), Append(seen, typeTitles[Head(entries).type]))

groupEntriesAsInserted(entries) ==
  [k \in 1..Len(TitlesAsInserted(entries, <<>>)) |->
     [title |-> TitlesAsInserted(entries, <<>>)[k],
      entries |-> SelectTitle(entries, TitlesAsInserted(entries, <<>>)[k])]]

groupEntriesByType(entries) == GroupFrom(entries, 1)

RedundantVerbs == {"add", "fix", "update", "remove"}

\* description.replace(/^(add|fix|update|remove)\s+/i, '')
StripLeadingVerb(description) ==
  LET lower == ToLowerCase(description)
      V == {v \in RedundantVerbs :
              StartsWith(lower, v) /\ At(description, Len(v) + 1) \in WhiteSpace}
  IN IF V = {} THEN description
     ELSE LET v == CHOOSE x \in V : TRUE
          IN Drop(description, RunEnd(description, Len(v) + 1, WhiteSpace))

FileExtensions == {"ts", "js", "tsx", "jsx", "json", "yaml", "yml", "md", "txt"}

\* \b before position i
WordBoundary(s, i) == (At(s, i - 1) \in WordChars) # (At(s, i) \in WordChars)

\* (?!\s+\w) at position k
NoWordAfterSpace(s, k) ==
  ~ (At(s, k) \in WhiteSpace /\ At(s, RunEnd(s, k, WhiteSpace) + 1) \in WordChars)

\* the end of the match of
\*   /\b[\w-]+\.(ts|js|tsx|jsx|json|yaml|yml|md|txt)\b(?!\s+\w)/i
\* that starts at p, 0 when there is none
FileTokenEnd(s, p) ==
  LET q == RunEnd(s, p, WordChars \cup {"-"})
      E == {e \in FileExtensions :
              /\ q + 1 + Len(e) <= Len(s)
              /\ ToLowerCase(SubSeq(s, q + 2, q + 1 + Len(e))) = e
              /\ WordBoundary(s, q + 2 + Len(e))
              /\ NoWordAfterSpace(s, q + 2 + Len(e))}
  IN IF WordBoundary(s, p) /\ q >= p /\ At(s, q + 1) = "." /\ E # {}
       THEN q + 1 + Len(CHOOSE e \in E : TRUE)
       ELSE 0

\* the /g replacement of the file tokens of s at or after position from
RECURSIVE RemoveFileTokens(_, _)
RemoveFileTokens(s, from) ==
  LET P == {p \in from..Len(s) : FileTokenEnd(s, p) # 0}
  IN IF P = {} THEN SubSeq(s, from, Len(s))
     ELSE SubSeq(s, from, Min(P) - 1) \o RemoveFileTokens(s, FileTokenEnd(s, Min(P)) + 1)

\* description.replace(/^[,\-\s]+|[,\-\s]+$/g, '')
StripPunctuation(s) ==
  LET I == {i \in 1..Len(s) : At(s, i) \notin ({",", "-"} \cup WhiteSpace)}
  IN IF I = {} THEN "" ELSE SubSeq(s, Min(I), Max(I))

\* lower-case the first letter unless the text starts with /^[A-Z]{2,}/
Decapitalize(s) ==
  IF Len(s) > 0 /\ ~(At(s, 1) \in UpperCaseLetters /\ At(s, 2) \in UpperCaseLetters)
    THEN LowerChar(At(s, 1)) \o Drop(s, 1)
    ELSE s

CleanDescription(description) ==
  Decapitalize(StripPunctuation(Trim(CollapseWhiteSpace(
    RemoveFileTokens(StripLeadingVerb(description), 1)))))

MinDescriptionLength == 10

\* RenderEntry with a bullet before the entries with a scope as well
RenderEntryAllBullets(entry) ==
  LET description == CleanDescription(entry.description)
  IN IF Len(description) < MinDescriptionLength THEN <<>>
     ELSE IF entry.scope # "" THEN <<"- **" \o entry.scope \o "**: " \o description>>
     ELSE <<"- " \o description>>

\* RenderEntry without the floor on the length of the description
RenderEntryNoFloor(entry) ==
  LET description == CleanDescription(entry.description)
  IN IF entry.scope # "" THEN <<"**" \o entry.scope \o "**: " \o description>>
     ELSE <<"- " \o description>>

\* the line of one entry: <<>> stands for null (the entry is skipped)
RenderEntry(entry) ==
  LET description == CleanDescription(entry.description)
  IN IF Len(description) < MinDescriptionLength THEN <<>>
     ELSE IF entry.scope # "" THEN <<"**" \o entry.scope \o "**: " \o description>>
     ELSE <<"- " \o description>>

RECURSIVE RenderEntries(_)
RenderEntries(entries) ==
  IF entries = <<>> THEN <<>>
  ELSE RenderEntry(Head(entries)) \o RenderEntries(Tail(entries))

\* the text of each section that keeps at least one line
RECURSIVE RenderSections(_)
RenderSections(sections) ==
  IF sections = <<>> THEN <<>>
  ELSE LET lines == RenderEntries(Head(sections).entries)
       IN (IF lines = <<>> THEN <<>>
           ELSE <<"### " \o Head(sections).title \o "\n\n" \o Join(lines, "\n")>>)
          \o RenderSections(Tail(sections))

generateSectionContent(sections) == Join(RenderSections(sections), "\n\n")

(***************************************************************************)
(* The document merge engine.                                              *)
(***************************************************************************)
UnreleasedHeading == "## [Unreleased]"

GeneratedOpen == "<!-- Generated:"

ProcessedOpen == "<!-- CI-LAST-PROCESSED:"

createInitialChangelog ==
  "# Changelog\n\n"
  \o "All notable changes to this project will be documented in this file.\n\n"
  \o "The format is based on [Keep a Changelog](https://keepachangelog.com/en/1.0.0/),\n"
  \o "and this project adheres to [Semantic Versioning](https://semver.org/spec/v2.0.0.html).\n\n"
  \o "## [Unreleased]\n\n"

\* the match of /###\s+(.+)/ that starts at i: [cap |-> the captured title,
\* end |-> the last position of the match], end = 0 when there is none
HeadingMatchAt(s, i) ==
  LET w == RunEnd(s, i + 3, WhiteSpace)
      K == {k \in (i + 3)..w : k + 1 <= Len(s) /\ At(s, k + 1) # "\n"}
  IN IF IsAt(s, i, "###") /\ K # {}
       THEN LET start == Max(K) + 1
                end == RunEnd(s, start, {At(s, j) : j \in start..Len(s)} \ {"\n"})
            IN [cap |-> SubSeq(s, start, end), end |-> end]
       ELSE [cap |-> "", end |-> 0]

\* the start of the first match of /###\s+(.+)/ in s, 0 when there is none
FirstHeading(s) ==
  LET I == {i \in 1..Len(s) : HeadingMatchAt(s, i).end # 0}
  IN IF I = {} THEN 0 ELSE Min(I)

\* the lines of a section body that start with "-" once trimmed, trimmed
RECURSIVE BulletLines(_)
BulletLines(lines) ==
  IF lines = <<>> THEN <<>>
  ELSE IF StartsWith(Trim(Head(lines)), "-")
    THEN <<Trim(Head(lines))>> \o BulletLines(Tail(lines))
    ELSE BulletLines(Tail(lines))

\* content.split(/###\s+(.+)/) walked in pairs (title, body)
RECURSIVE parseExistingChangelogEntries(_)
parseExistingChangelogEntries(content) ==
  LET i == FirstHeading(content)
  IN IF i = 0 THEN <<>>
     ELSE LET m == HeadingMatchAt(content, i)
              rest == Drop(content, m.end)
              next == FirstHeading(rest)
              sectionTitle == Trim(m.cap)
              sectionContent == IF next = 0 THEN rest ELSE Take(rest, next - 1)
              entryLines == BulletLines(Split(sectionContent, "\n"))
          IN (IF sectionTitle = "" THEN <<>>
              ELSE [k \in 1..Len(entryLines) |->
                      [section |-> sectionTitle, content |-> entryLines[k]]])
             \o parseExistingChangelogEntries(rest)

\* s.replace(/^-\s*/, '')
StripBullet(s) ==
  IF StartsWith(s, "-") THEN Drop(s, RunEnd(s, 2, WhiteSpace)) ELSE s

\* s.replace(/\*\*[^*]+\*\*:\s*/, '')
StripScopeMarker(s) ==
  LET End(i) == RunEnd(s, i + 2, {At(s, j) : j \in 1..Len(s)} \ {"*"})
      I == {i \in 1..Len(s) :
              IsAt(s, i, "**") /\ End(i) >= i + 2 /\ IsAt(s, End(i) + 1, "**:")}
  IN IF I = {} THEN s
     ELSE LET i == Min(I)
          IN Take(s, i - 1) \o Drop(s, RunEnd(s, End(i) + 4, WhiteSpace))

\* s.replace(/task\s*(id|Id)?\s*:\s*/, '')
StripTaskPrefix(s) ==
  LET AfterId(i) ==
        LET a == RunEnd(s, i + 4, WhiteSpace) + 1
        IN IF IsAt(s, a, "id") \/ IsAt(s, a, "Id")
             THEN RunEnd(s, a + 2, WhiteSpace) + 1
             ELSE a
      I == {i \in 1..Len(s) : IsAt(s, i, "task") /\ At(s, AfterId(i)) = ":"}
  IN IF I = {} THEN s
     ELSE LET i == Min(I)
          IN Take(s, i - 1) \o Drop(s, RunEnd(s, AfterId(i) + 1, WhiteSpace))

\* s.replace(/dev-\d+[,\s]*/, '')
StripDevNumber(s) ==
  LET I == {i \in 1..Len(s) : IsAt(s, i, "dev-") /\ RunEnd(s, i + 4, Digits) >= i + 4}
  IN IF I = {} THEN s
     ELSE LET i == Min(I)
          IN Take(s, i - 1)
             \o Drop(s, RunEnd(s, RunEnd(s, i + 4, Digits) + 1, {","} \cup WhiteSpace))

normalizeChangelogEntry(content) ==
  Trim(CollapseWhiteSpace(StripDevNumber(StripTaskPrefix(StripScopeMarker(
    StripBullet(ToLowerCase(content)))))))

LineKey(entry) == entry.section \o ":" \o normalizeChangelogEntry(entry.content)

\* the Map of deduplicateChangelogEntries as its values in insertion order
RECURSIVE DedupLinesInto(_, _)
DedupLinesInto(seen, entries) ==
  IF entries = <<>> THEN seen
  ELSE LET entry == Head(entries)
           I == {i \in 1..Len(seen) : LineKey(seen[i]) = LineKey(entry)}
       IN IF I = {} THEN DedupLinesInto(Append(seen, entry), Tail(entries))
          ELSE LET i == CHOOSE x \in I : TRUE
               IN IF Len(entry.content) > Len(seen[i].content)
                    THEN DedupLinesInto([seen EXCEPT ![i] = entry], Tail(entries))
                    ELSE DedupLinesInto(seen, Tail(entries))

deduplicateChangelogEntries(entries) == DedupLinesInto(<<>>, entries)

RECURSIVE ContentsOf(_, _)
ContentsOf(entries, section) ==
  IF entries = <<>> THEN <<>>
  ELSE IF Head(entries).section = section
    THEN <<Head(entries).content>> \o ContentsOf(Tail(entries), section)
    ELSE ContentsOf(Tail(entries), section)

RECURSIVE RebuildFrom(_, _)
RebuildFrom(entries, k) ==
  IF k > Len(sectionOrder) THEN <<>>
  ELSE LET lines == ContentsOf(entries, sectionOrder[k])
       IN (IF lines = <<>> THEN <<>>
           ELSE <<"### " \o sectionOrder[k] \o "\n\n" \o Join(lines, "\n")>>)
          \o RebuildFrom(entries, k + 1)

intelligentMerge(existingSection, newSection) ==
  LET allEntries == parseExistingChangelogEntries(existingSection)
                    \o parseExistingChangelogEntries(newSection)
  IN Join(RebuildFrom(deduplicateChangelogEntries(allEntries), 1), "\n\n")

\* the match of
\*   /## \[Unreleased\]\s*([\s\S]*?)(?=\n## |\n<!-- Generated:|$)/
\* [start, body, end]: the body is positions body..end; start = 0: no match
UnreleasedMatch(s) ==
  LET u == IndexOf(s, UnreleasedHeading, 1)
      b == RunEnd(s, u + Len(UnreleasedHeading), WhiteSpace) + 1
      Stop == {e \in b..Len(s) : IsAt(s, e, "\n## ") \/ IsAt(s, e, "\n" \o GeneratedOpen)}
      e == IF Stop = {} THEN Len(s) + 1 ELSE Min(Stop)
  IN IF u = 0 THEN [start |-> 0, body |-> 0, end |-> 0]
     ELSE [start |-> u, body |-> b, end |-> e - 1]

\* mergeWithExistingChangelog appending the new block to a document without
\* Unreleased block, wherever its releases are
mergeAppendingAtEnd(existingContent, newSection) ==
  LET m == UnreleasedMatch(existingContent)
      captured == SubSeq(existingContent, m.body, m.end)
      Replaced(body) == Take(existingContent, m.start - 1)
                        \o UnreleasedHeading \o "\n\n" \o body \o "\n\n"
                        \o Drop(existingContent, m.end)
  IN IF m.start # 0 /\ captured # ""
       THEN LET existingUnreleased == Trim(captured)
            IN IF existingUnreleased # "" /\ ~Includes(existingUnreleased, GeneratedOpen)
                 THEN Replaced(intelligentMerge(existingUnreleased, newSection))
                 ELSE Replaced(newSection)
       ELSE existingContent \o "\n" \o UnreleasedHeading \o "\n\n" \o newSection \o "\n\n"

mergeWithExistingChangelog(existingContent, newSection) ==
  LET m == UnreleasedMatch(existingContent)
      captured == SubSeq(existingContent, m.body, m.end)
      Replaced(body) == Take(existingContent, m.start - 1)
                        \o UnreleasedHeading \o "\n\n" \o body \o "\n\n"
                        \o Drop(existingContent, m.end)
      headerEndIndex == IndexOf(existingContent, "\n## ", 1)
  IN IF m.start # 0 /\ captured # ""
       THEN LET existingUnreleased == Trim(captured)
            IN IF existingUnreleased # "" /\ ~Includes(existingUnreleased, GeneratedOpen)
                 THEN Replaced(intelligentMerge(existingUnreleased, newSection))
                 ELSE Replaced(newSection)
       ELSE IF headerEndIndex # 0
         THEN Take(existingContent, headerEndIndex - 1)
              \o "\n" \o UnreleasedHeading \o "\n\n" \o newSection \o "\n\n"
              \o Drop(existingContent, headerEndIndex - 1)
         ELSE existingContent \o "\n" \o UnreleasedHeading \o "\n\n" \o newSection \o "\n\n"

\* s.replace(/<open>.*?-->\n?/g, '') for a comment opener
RECURSIVE RemoveComments(_, _)
RemoveComments(s, open) ==
  LET Close(i) ==
        LET c == IndexOf(s, "-->", i + Len(open))
            n == IndexOf(s, "\n", i + Len(open))
        IN IF c # 0 /\ (n = 0 \/ c < n) THEN c + 2 ELSE 0
      I == {i \in 1..Len(s) : IsAt(s, i, open) /\ Close(i) # 0}
  IN IF I = {} THEN s
     ELSE LET i == Min(I)
              e == IF At(s, Close(i) + 1) = "\n" THEN Close(i) + 1 ELSE Close(i)
          IN Take(s, i - 1) \o RemoveComments(Drop(s, e), open)

\* s.replace(/\n{3,}/g, '\n\n')
RECURSIVE CollapseBlankLines(_)
CollapseBlankLines(s) ==
  LET I == {i \in 1..Len(s) : IsAt(s, i, "\n\n\n")}
  IN IF I = {} THEN s
     ELSE LET i == Min(I)
          IN Take(s, i - 1) \o "\n\n" \o CollapseBlankLines(Drop(s, RunEnd(s, i, {"\n"})))

removeExistingMetadata(content) ==
  Trim(CollapseBlankLines(RemoveComments(RemoveComments(content, GeneratedOpen),
                                         ProcessedOpen)))

Metadata(timestamp, latestCommit) ==
  GeneratedOpen \o " " \o timestamp \o " Commit: " \o latestCommit \o " -->\n"
  \o ProcessedOpen \o " " \o latestCommit \o " -->"

\* InsertMetadata with the pair always appended to the document
InsertMetadataAtEnd(cleanedContent, metadata) ==
  cleanedContent \o "\n" \o metadata \o "\n"

\* /(## \[Unreleased\][\s\S]*?)(\n## |$)/ and the replacement
InsertMetadata(cleanedContent, metadata) ==
  LET u == IndexOf(cleanedContent, UnreleasedHeading, 1)
      e == IndexOf(cleanedContent, "\n## ", u + Len(UnreleasedHeading))
  IN IF u = 0 THEN cleanedContent \o "\n" \o metadata \o "\n"
     ELSE IF e = 0 THEN cleanedContent \o "\n" \o metadata \o "\n"
     ELSE Take(cleanedContent, e - 1) \o "\n" \o metadata \o "\n"
          \o Drop(cleanedContent, e - 1)

\* addMetadata without the call of removeExistingMetadata
addMetadataKeepingStale(content, latestCommit, timestamp) ==
  InsertMetadata(content, Metadata(timestamp, latestCommit))

addMetadata(content, latestCommit, timestamp) ==
  InsertMetadata(removeExistingMetadata(content), Metadata(timestamp, latestCommit))

(***************************************************************************)
(* The repository and the changelog file.                                  *)
(***************************************************************************)
\* Bounds of the model
MaxCommits == 2

MaxRuns == 2

\* git log HEAD~50..HEAD
FallbackWindow == 50

HexChars == Digits \cup {"a", "b", "c", "d", "e", "f"}

HexDigit == <<"1", "2", "3", "4", "5", "6", "7", "8", "9", "a", "b", "c", "d", "e", "f">>

\* the object id of the i-th commit of the history
CommitHash(i) == HexDigit[i] \o "c0ffee0"

\* the abbreviated object id that git log --oneline prints
Abbreviate(hash) == Take(hash, 7)

\* new Date().toISOString() at time n
Timestamp(n) == "2024-01-0" \o HexDigit[n] \o "T00:00:00.000Z"

\* first lines of commit messages
Messages ==
  {"fix(api): resolve timeout issue", "add button component", "wip", "style: tiny"}

\* what git commit and git merge append to the history
CommitChoices ==
  [message : Messages, merge : {FALSE}]
  \cup {[message |-> "Merge branch 'dev'", merge |-> TRUE]}

\* the history a run may start from: the commit the documents below refer to
InitialHistories == {<<[message |-> "fix(api): resolve timeout issue", merge |-> FALSE]>>}

ReleaseBlock ==
  "## [1.0.0] - 2024-01-01\n\n### Added\n\n- first public release\n\n\n- command line\n"

\* a hand-kept document: an empty Unreleased block right before a release
ReleasedChangelog == "# Changelog\n\n## [Unreleased]\n\n" \o ReleaseBlock

\* a document left by earlier runs: entries of the first commit (sections out
\* of order, a scoped line), two stale watermark pairs, a release
StaleChangelog ==
  "# Changelog\n\n## [Unreleased]\n\n"
  \o "### Fixed\n\n**api**: resolve timeout issue\n- crash on start\n\n### Added\n\n- button component\n\n\n"
  \o "<!-- Generated: 2023-12-30T00:00:00.000Z Commit: 0ld -->\n"
  \o "<!-- CI-LAST-PROCESSED: 0ld -->\n\n"
  \o "<!-- Generated: 2023-12-31T00:00:00.000Z Commit: " \o CommitHash(1) \o " -->\n"
  \o "<!-- CI-LAST-PROCESSED: " \o CommitHash(1) \o " -->\n\n"
  \o ReleaseBlock

\* the file: <<>> when it does not exist, <<text>> otherwise
InitialChangelogs == {<<>>, <<ReleasedChangelog>>, <<StaleChangelog>>}

\* changelogContent.match(/<!-- CI-LAST-PROCESSED: ([a-f0-9]+) -->/):
\* <<>> for no match, <<hash>> otherwise
LastProcessedCommit(changelogContent) ==
  LET open == ProcessedOpen \o " "
      End(i) == RunEnd(changelogContent, i + Len(open), HexChars)
      I == {i \in 1..Len(changelogContent) :
              /\ IsAt(changelogContent, i, open)
              /\ End(i) >= i + Len(open)
              /\ IsAt(changelogContent, End(i) + 1, " -->")}
  IN IF I = {} THEN <<>>
     ELSE <<SubSeq(changelogContent, Min(I) + Len(open), End(Min(I)))>>

\* the position in the history of the commit named by a revision, 0 if none
Resolve(history, rev) ==
  LET I == {i \in 1..Len(history) : CommitHash(i) = rev}
  IN IF I = {} THEN 0 ELSE CHOOSE i \in I : TRUE

\* git log <from>..HEAD --oneline --no-merges --reverse, as text
RECURSIVE GitLog(_, _)
GitLog(history, from) ==
  IF from >= Len(history) THEN ""
  ELSE LET rest == GitLog(history, from + 1)
           line == Abbreviate(CommitHash(from + 1)) \o " " \o history[from + 1].message
       IN IF history[from + 1].merge THEN rest
          ELSE IF rest = "" THEN line
          ELSE line \o "\n" \o rest

\* line.split(' ') into hash and the message parts joined again
ParseLogLine(line) ==
  LET i == IndexOf(line, " ", 1)
  IN IF i = 0 THEN [hash |-> line, message |-> ""]
     ELSE [hash |-> Take(line, i - 1), message |-> Drop(line, i)]

RECURSIVE KeepComplete(_)
KeepComplete(cs) ==
  IF cs = <<>> THEN <<>>
  ELSE IF Head(cs).hash # "" /\ Head(cs).message # ""
    THEN <<Head(cs)>> \o KeepComplete(Tail(cs))
    ELSE KeepComplete(Tail(cs))

\* getCommitsSinceLastCI when no command fails: [ok |-> FALSE] when git log
\* rejects the revision read from the changelog
getCommitsSinceLastCI(file, history) ==
  LET lastProcessedCommit == IF file = <<>> THEN <<>> ELSE LastProcessedCommit(file[1])
      from == IF lastProcessedCommit # <<>> THEN Resolve(history, lastProcessedCommit[1])
              ELSE IF Len(history) > FallbackWindow THEN Len(history) - FallbackWindow
              ELSE 0
      gitLog == Trim(GitLog(history, from))
      lines == Split(gitLog, "\n")
  IN IF lastProcessedCommit # <<>> /\ from = 0 THEN [ok |-> FALSE, commits |-> <<>>]
     ELSE IF gitLog = "" THEN [ok |-> TRUE, commits |-> <<>>]
     ELSE [ok |-> TRUE,
           commits |-> KeepComplete([k \in 1..Len(lines) |-> ParseLogLine(lines[k])])]

(***************************************************************************)
(* The orchestrator generateChangelog as a state machine: one action per   *)
(* awaited call, each followed by the synchronous code up to the next one. *)
(***************************************************************************)
VARIABLES
  history,        \* the commits of the repository, oldest first; HEAD is the last
  changelog,      \* CHANGELOG.md: <<>> when absent, <<text>> otherwise
  pc,             \* where the running generateChangelog call stands
  previewMode,    \* the argument of the running call
  commits,        \* const commits of the running call
  parsed,         \* parseCommits: const entries, the commits as parsed
  filtered,       \* parseCommits: const filtered
  entries,        \* const entries: what parseCommits returned
  newContent,     \* const newContent
  updatedContent, \* const updatedContent
  latestCommit,   \* const latestCommit
  finalContent,   \* const finalContent
  outcome,        \* "none", "returned" or "threw"
  error,          \* the message of the Error thrown, "" when none
  result,         \* the value returned: <<>> for null, <<text>> otherwise
  runs,           \* the number of calls so far
  clock,          \* the time: it advances between two writes of the file
  atCall,         \* the file and the repository when the running call began
  prev,           \* how the previous call ended, and the file it had found if it
                  \* was a non-preview call that threw
  options,        \* CursorClient: this.options as the caller configured them
  cursorPath,     \* CursorClient: this.cursorPath, <<>> when the CLI was not found
  clientPc,       \* where the running generateResponse call stands
  attempt,        \* generateResponse: let attempt
  lastError,      \* generateResponse: let lastError
  delay,          \* generateResponse: const delay of the wait in progress
  response,       \* what generateResponse returned: <<>> while it has not
  attempts        \* the number of attemptGeneration calls started

vars ==
  <<history, changelog, pc, previewMode, commits, parsed, filtered, entries, newContent,
    updatedContent, latestCommit, finalContent, outcome, error, result, runs, clock,
    atCall, prev, options, cursorPath, clientPc, attempt, lastError, delay, response, attempts>>

locals == <<commits, entries, newContent, updatedContent, latestCommit, finalContent>>

\* the locals of parseCommits: it runs within one step of generateChangelog
parserLocals == <<parsed, filtered>>

\* the state of the CursorClient and of its generateResponse call
client == <<options, cursorPath, clientPc, attempt, lastError, delay, response, attempts>>

\* no CursorClient has been constructed
NoClient ==
  /\ options = [maxRetries |-> <<>>]
  /\ cursorPath = <<>>
  /\ clientPc = "none"
  /\ attempt = 0
  /\ lastError = ""
  /\ delay = 0
  /\ response = <<>>
  /\ attempts = 0

HeadHash(h) == CommitHash(Len(h))

NoCall == [outcome |-> "none", preview |-> FALSE, head |-> "", changelog |-> <<>>]

Init ==
  /\ history \in InitialHistories
  /\ changelog \in InitialChangelogs
  /\ pc = "idle"
  /\ previewMode = FALSE
  /\ commits = <<>>
  /\ parsed = <<>>
  /\ filtered = <<>>
  /\ entries = <<>>
  /\ newContent = ""
  /\ updatedContent = ""
  /\ latestCommit = ""
  /\ finalContent = ""
  /\ outcome = "none"
  /\ error = ""
  /\ result = <<>>
  /\ runs = 0
  /\ clock = 1
  /\ atCall = [changelog |-> <<>>, head |-> ""]
  /\ prev = NoCall
  /\ NoClient

\* somebody commits while no run is in progress (a run has exclusive access)
GitCommit(c) ==
  /\ pc = "idle"
  /\ runs < MaxRuns
  /\ Len(history) < MaxCommits
  /\ history' = Append(history, c)
  /\ UNCHANGED <<changelog, pc, previewMode, locals, outcome, error, result, runs, clock, atCall, prev, parserLocals, client>>

\* generateChangelog(preview) is called
Call(preview) ==
  /\ pc = "idle"
  /\ runs < MaxRuns
  /\ pc' = "getCommits"
  /\ previewMode' = preview
  /\ runs' = runs + 1
  /\ atCall' = [changelog |-> changelog, head |-> HeadHash(history)]
  /\ outcome' = "none"
  /\ error' = ""
  /\ result' = <<>>
  /\ UNCHANGED <<history, changelog, locals, clock, prev, parserLocals, client>>

\* generateChangelog without the early return of the preview mode
DecideIgnoringPreview(cs, preview, rendered) ==
  IF Len(cs) = 0 THEN [next |-> "return", result |-> <<>>, newContent |-> ""]
  ELSE IF Trim(rendered) = ""
    THEN [next |-> "return", result |-> <<>>, newContent |-> rendered]
  ELSE [next |-> "read", result |-> <<>>, newContent |-> rendered]

\* generateChangelog without the early return on an empty rendering
DecideKeepingEmpty(cs, preview, rendered) ==
  IF Len(cs) = 0 THEN [next |-> "return", result |-> <<>>, newContent |-> ""]
  ELSE IF preview
    THEN [next |-> "return", result |-> <<rendered>>, newContent |-> rendered]
  ELSE [next |-> "read", result |-> <<>>, newContent |-> rendered]

\* the code between the commit query and the read of the document: what the
\* call does next with these commits, rendered being their rendered text
Decide(cs, preview, rendered) ==
  IF Len(cs) = 0 THEN [next |-> "return", result |-> <<>>, newContent |-> ""]
  ELSE IF Trim(rendered) = ""
    THEN [next |-> "return", result |-> <<>>, newContent |-> rendered]
  ELSE IF preview
    THEN [next |-> "return", result |-> <<rendered>>, newContent |-> rendered]
  ELSE [next |-> "read", result |-> <<>>, newContent |-> rendered]

\* the rendering with the worthiness filter applied once more, to the
\* cleaned descriptions
SectionContentRefiltered(es) ==
  generateSectionContent(groupEntriesByType(
    SelectSeq(es, LAMBDA e :
      isChangelogWorthy([e EXCEPT !.description = CleanDescription(e.description)]))))

\* const sections = ...; const newContent = ...
SectionContentOf(es) == generateSectionContent(groupEntriesByType(es))

Render(cs) == SectionContentOf(parseCommits(cs))

AfterCommits(cs, preview) == Decide(cs, preview, Render(cs))

\* catch (error) { throw new Error(`Failed to generate changelog: ${error}`) }
Throw(cause) ==
  /\ pc' = "done"
  /\ outcome' = "threw"
  /\ error' = "Failed to generate changelog: " \o cause
  /\ result' = <<>>

\* catch (error) { throw new Error(`Failed to get commits: ${error}`) }
FailedToGetCommits == "Error: Failed to get commits"

\* await this.getCommitsSinceLastCI() succeeds
GetCommits ==
  /\ pc = "getCommits"
  /\ \E got \in {getCommitsSinceLastCI(changelog, history)} :
       /\ got.ok
       /\ commits' = got.commits
       /\ \E es \in {IF Len(got.commits) = 0 THEN <<>> ELSE parseCommits(got.commits)} :
          \E step \in {Decide(got.commits, previewMode, SectionContentOf(es))} :
            /\ entries' = es
            /\ newContent' = step.newContent
            /\ result' = step.result
            /\ pc' = IF step.next = "return" THEN "done" ELSE "read"
            /\ outcome' = IF step.next = "return" THEN "returned" ELSE "none"
  /\ UNCHANGED <<history, changelog, previewMode, updatedContent, latestCommit,
                 finalContent, error, runs, clock, atCall, prev, parserLocals, client>>

\* the read of the changelog or git log fails: "Failed to get commits"
GetCommitsFails ==
  /\ pc = "getCommits"
  /\ Throw(FailedToGetCommits)
  /\ UNCHANGED <<history, changelog, previewMode, locals, runs, clock, atCall, prev, parserLocals, client>>

readExistingChangelog(file) == IF file # <<>> THEN file[1] ELSE createInitialChangelog

\* await this.readExistingChangelog() succeeds, then the merge
ReadExisting ==
  /\ pc = "read"
  /\ updatedContent' = mergeWithExistingChangelog(readExistingChangelog(changelog), newContent)
  /\ pc' = "hash"
  /\ UNCHANGED <<history, changelog, previewMode, commits, entries, newContent, latestCommit,
                 finalContent, outcome, error, result, runs, clock, atCall, prev, parserLocals, client>>

\* fs.readFile rejects
ReadExistingFails ==
  /\ pc = "read"
  /\ Throw("Error: EACCES")
  /\ UNCHANGED <<history, changelog, previewMode, locals, runs, clock, atCall, prev, parserLocals, client>>

\* getLatestCommitHash: git rev-parse HEAD, or 'unknown' when it fails
getLatestCommitHash(h, gitWorks) == IF gitWorks THEN HeadHash(h) ELSE "unknown"

\* await this.getLatestCommitHash(), then addMetadata
GetLatestCommitHash(gitWorks) ==
  /\ pc = "hash"
  /\ \E hash \in {getLatestCommitHash(history, gitWorks)} :
       /\ latestCommit' = hash
       /\ finalContent' = addMetadata(updatedContent, hash, Timestamp(clock))
  /\ pc' = "write"
  /\ UNCHANGED <<history, changelog, previewMode, commits, entries, newContent, updatedContent,
                 outcome, error, result, runs, clock, atCall, prev, parserLocals, client>>

\* await fs.writeFile(this.changelogPath, finalContent) succeeds
WriteFile ==
  /\ pc = "write"
  /\ changelog' = <<finalContent>>
  /\ pc' = "done"
  /\ outcome' = "returned"
  /\ result' = <<finalContent>>
  /\ clock' = clock + 1
  /\ UNCHANGED <<history, previewMode, locals, error, runs, atCall, prev, parserLocals, client>>

\* fs.writeFile opens the file truncating it and then writes: a failure
\* leaves the old file (the open failed) or an emptied one (a write failed)
WriteFileFails ==
  /\ pc = "write"
  /\ changelog' \in {changelog, <<"">>}
  /\ Throw("Error: ENOSPC")
  /\ UNCHANGED <<history, previewMode, locals, runs, clock, atCall, prev, parserLocals, client>>

\* the call is over: its promise settles and the locals are gone
Settle ==
  /\ pc = "done"
  /\ pc' = "idle"
  /\ prev' = [outcome |-> outcome, preview |-> previewMode, head |-> HeadHash(history),
            changelog |-> IF outcome = "threw" /\ ~previewMode THEN atCall.changelog
                          ELSE <<>>]
  /\ commits' = <<>>
  /\ entries' = <<>>
  /\ newContent' = ""
  /\ updatedContent' = ""
  /\ latestCommit' = ""
  /\ finalContent' = ""
  /\ outcome' = "none"
  /\ error' = ""
  /\ result' = <<>>
  /\ previewMode' = FALSE
  /\ atCall' = [changelog |-> <<>>, head |-> ""]
  /\ UNCHANGED <<history, changelog, runs, clock, parserLocals, client>>

Next ==
  \/ \E c \in CommitChoices : GitCommit(c)
  \/ \E preview \in BOOLEAN : Call(preview)
  \/ GetCommits
  \/ GetCommitsFails
  \/ ReadExisting
  \/ ReadExistingFails
  \/ \E gitWorks \in BOOLEAN : GetLatestCommitHash(gitWorks)
  \/ WriteFile
  \/ WriteFileFails
  \/ Settle

Spec == Init /\ [][Next]_vars

(***************************************************************************)
(* parseCommits step by step, on commit records of many shapes.            *)
(***************************************************************************)
\* Bound of the model: the commits of a batch
MaxBatch == 3

\* a message of the form type(scope): description
Form(type, scope, description) == type \o "(" \o scope \o "): " \o description

FormScopes == {"api", "ui core", "render()"}

FormDescriptions == {"resolve timeout issue", "x"}

\* messages of the form type(scope): description
FormMessages ==
  {Form(t, s, d) : t \in Range(CommitType), s \in FormScopes, d \in FormDescriptions}

\* other first lines of commit messages, as git log --oneline prints them:
\* not empty and without white space at the end
PlainMessages ==
  {"fix: handle null user", "Fix: handle null user", "fix:handle null user",
   "feature: new thing", "fix failing test", "Bug in spec runner",
   "update README for the pipeline", "cleanup of deps", "optimize security checks",
   "workflow for new version", "precise timing", "bump dependency",
   "add button component", "vulnerability in parser", "refactor of docs",
   "performance tests", "Merge branch 'dev'", "merge", "merged the queue",
   "found 12 staged files", "found staged files", "generating AI commit message",
   "chore: AI message generated now", "wip", "WIP", "wip it", "temp", "tmp",
   "index.js", "src/index.js", "a.b.c", "v1.0", "update", "fix", "add", "remove",
   "change", "delete", "create", "test", "debug", "docs: Update", "updates",
   "feat:  fix", "style: tiny"}

\* messages whose entries share a key, or whose keys differ in one part only
DedupMessages ==
  {"fix(api): http:timeout handling", "fix(api:http): timeout handling",
   "fix(api): HTTP:timeout  handling", "fix: http:timeout handling"}

RECURSIVE BatchesOf(_, _)
BatchesOf(S, n) ==
  IF n = 0 THEN {<<>>}
  ELSE {<<m>> \o b : m \in S, b \in BatchesOf(S, n - 1)}

MessageBatches ==
  {<<m>> : m \in FormMessages \cup PlainMessages}
  \cup UNION {BatchesOf(DedupMessages, n) : n \in 2..MaxBatch}

\* the repository whose commits are a batch of messages
HistoryOf(batch) == [i \in 1..Len(batch) |-> [message |-> batch[i], merge |-> FALSE]]

\* a call on a repository without changelog has got its commits
ParseInit ==
  /\ history \in {HistoryOf(batch) : batch \in MessageBatches}
  /\ changelog = <<>>
  /\ commits = getCommitsSinceLastCI(changelog, history).commits
  /\ pc = "map"
  /\ previewMode = FALSE
  /\ parsed = <<>>
  /\ filtered = <<>>
  /\ entries = <<>>
  /\ newContent = ""
  /\ updatedContent = ""
  /\ latestCommit = ""
  /\ finalContent = ""
  /\ outcome = "none"
  /\ error = ""
  /\ result = <<>>
  /\ runs = 1
  /\ clock = 1
  /\ atCall = [changelog |-> changelog, head |-> HeadHash(history)]
  /\ prev = NoCall
  /\ NoClient

\* const entries = commits.map(...)
MapCommits ==
  /\ pc = "map"
  /\ parsed' = ParsedEntries(commits)
  /\ pc' = "filter"
  /\ UNCHANGED <<history, changelog, previewMode, commits, filtered, entries, newContent,
                 updatedContent, latestCommit, finalContent, outcome, error, result,
                 runs, clock, atCall, prev, client>>

\* const filtered = entries.filter(entry => this.isChangelogWorthy(entry))
FilterEntries ==
  /\ pc = "filter"
  /\ filtered' = FilterWorthy(parsed)
  /\ pc' = "dedupe"
  /\ UNCHANGED <<history, changelog, previewMode, commits, parsed, entries, newContent,
                 updatedContent, latestCommit, finalContent, outcome, error, result,
                 runs, clock, atCall, prev, client>>

\* return this.deduplicateEntries(filtered)
DeduplicateEntries ==
  /\ pc = "dedupe"
  /\ entries' = deduplicateEntries(filtered)
  /\ pc' = "parsed"
  /\ UNCHANGED <<history, changelog, previewMode, commits, parsed, filtered, newContent,
                 updatedContent, latestCommit, finalContent, outcome, error, result,
                 runs, clock, atCall, prev, client>>

ParseNext ==
  \/ MapCommits
  \/ FilterEntries
  \/ DeduplicateEntries

ParseSpec == ParseInit /\ [][ParseNext]_vars

(***************************************************************************)
(* One run without failures, on documents of every shape of the merge.     *)
(***************************************************************************)
\* an Unreleased block that holds a stale watermark pair only
StaleOnlyChangelog ==
  "# Changelog\n\n## [Unreleased]\n\n"
  \o "<!-- Generated: 2023-12-31T00:00:00.000Z Commit: " \o CommitHash(1) \o " -->\n"
  \o "<!-- CI-LAST-PROCESSED: " \o CommitHash(1) \o " -->\n\n"
  \o ReleaseBlock

\* an Unreleased block with entries, one of them scoped, and no watermark
UnreleasedChangelog ==
  "# Changelog\n\n## [Unreleased]\n\n"
  \o "### Fixed\n\n- crash on start\n**api**: resolve timeout issue\n\n"
  \o ReleaseBlock

\* an Unreleased block with bullet entries only, one a longer spelling of an
\* entry the commits below render
BulletsChangelog ==
  "# Changelog\n\n## [Unreleased]\n\n"
  \o "### Added\n\n- Button  component\n- dark mode toggle\n\n"
  \o ReleaseBlock

\* no Unreleased block, a release
NoUnreleasedChangelog == "# Changelog\n\nAll notable changes.\n\n" \o ReleaseBlock

\* no Unreleased block and no release
NotesChangelog == "# Changelog\n\nAll notable changes.\n"

\* an Unreleased block whose body holds no section and no entry
MalformedChangelog ==
  "# Changelog\n\n## [Unreleased]\n\nwork in progress, see the wiki\n\n" \o ReleaseBlock

MergeChangelogs ==
  {<<>>, <<ReleasedChangelog>>, <<StaleOnlyChangelog>>, <<UnreleasedChangelog>>,
   <<BulletsChangelog>>, <<NoUnreleasedChangelog>>, <<NotesChangelog>>,
   <<MalformedChangelog>>}

MergeHistories ==
  {HistoryOf(batch) :
     batch \in {<<"fix(api): resolve timeout issue">>,
                <<"add button component">>,
                <<"fix(api): resolve timeout issue", "add button component">>,
                <<"add button component", "fix crash on start">>}}

\* generateChangelog(false) has been called
MergeInit ==
  /\ history \in MergeHistories
  /\ changelog \in MergeChangelogs
  /\ pc = "getCommits"
  /\ previewMode = FALSE
  /\ commits = <<>>
  /\ parsed = <<>>
  /\ filtered = <<>>
  /\ entries = <<>>
  /\ newContent = ""
  /\ updatedContent = ""
  /\ latestCommit = ""
  /\ finalContent = ""
  /\ outcome = "none"
  /\ error = ""
  /\ result = <<>>
  /\ runs = 1
  /\ clock = 1
  /\ atCall = [changelog |-> changelog, head |-> HeadHash(history)]
  /\ prev = NoCall
  /\ NoClient

MergeNext ==
  \/ GetCommits
  \/ ReadExisting
  \/ GetLatestCommitHash(TRUE)
  \/ WriteFile

MergeSpec == MergeInit /\ [][MergeNext]_vars

(***************************************************************************)
(* Observations on documents and runs.                                     *)
(***************************************************************************)
Lines(s) == Split(s, "\n")

\* the Unreleased block of a document: from its heading to the next "## "
\* heading or the end of the document
UnreleasedBlock(doc) ==
  LET u == IndexOf(doc, UnreleasedHeading, 1)
      e == IndexOf(doc, "\n## ", u + Len(UnreleasedHeading))
  IN IF u = 0 THEN ""
     ELSE IF e = 0 THEN Drop(doc, u - 1)
     ELSE SubSeq(doc, u, e - 1)

\* the release blocks of a document: from the first "## [<digit>" heading on
ReleaseBlocks(doc) ==
  LET I == {i \in 1..Len(doc) : /\ IsAt(doc, i, "## [")
                                /\ At(doc, i + 4) \in Digits
                                /\ (i = 1 \/ At(doc, i - 1) = "\n")}
  IN IF I = {} THEN "" ELSE Drop(doc, Min(I) - 1)

\* the entry lines of a block: neither blank, nor a heading, nor a comment
RECURSIVE EntryLinesOf(_)
EntryLinesOf(lines) ==
  IF lines = <<>> THEN <<>>
  ELSE IF Trim(Head(lines)) = "" \/ StartsWith(Head(lines), "#")
          \/ StartsWith(Head(lines), "<!--")
    THEN EntryLinesOf(Tail(lines))
    ELSE <<Head(lines)>> \o EntryLinesOf(Tail(lines))

EntryLines(text) == EntryLinesOf(Lines(text))

\* the titles of the "### " headings of a text, in the order of the text
RECURSIVE SectionTitlesOf(_)
SectionTitlesOf(lines) ==
  IF lines = <<>> THEN <<>>
  ELSE IF StartsWith(Head(lines), "### ")
    THEN <<Trim(Drop(Head(lines), 4))>> \o SectionTitlesOf(Tail(lines))
    ELSE SectionTitlesOf(Tail(lines))

SectionTitles(text) == SectionTitlesOf(Lines(text))

\* the rank of a title in the fixed order, 0 for an unknown title
SectionRank(title) ==
  IF title \in Range(sectionOrder)
    THEN CHOOSE k \in 1..Len(sectionOrder) : sectionOrder[k] = title
    ELSE 0

\* the headings of a text are section titles in strictly increasing rank
InSectionOrder(titles) ==
  /\ \A i \in 1..Len(titles) : SectionRank(titles[i]) > 0
  /\ \A i \in 1..Len(titles) : \A j \in 1..Len(titles) :
       i < j => SectionRank(titles[i]) < SectionRank(titles[j])

NoDuplicates(seq) ==
  \A i \in 1..Len(seq) : \A j \in 1..Len(seq) : i # j => seq[i] # seq[j]

\* the running call is a non-preview call that has written and returned
Persisted ==
  pc = "done" /\ ~previewMode /\ outcome = "returned" /\ result # <<>>

\* the document the running call found, "" when there was none
DocumentAtCall == IF atCall.changelog = <<>> THEN "" ELSE atCall.changelog[1]

\* the running call follows a completed non-preview call with no commit between
SecondInSuccession ==
  /\ pc = "done" /\ ~previewMode
  /\ prev.outcome = "returned" /\ ~prev.preview
  /\ prev.head = atCall.head

(***************************************************************************)
(* The properties.                                                         *)
(***************************************************************************)
\* C1: when generate(false) is called twice in succession with no commit in
\* between and the second call returns, it returns null and the document is
\* the one the first call left.
IdempotentWithoutNewCommits ==
  (SecondInSuccession /\ outcome = "returned")
    => (result = <<>> /\ changelog = atCall.changelog)

\* C2: after a successful non-preview run the document holds at most one
\* Generated comment and at most one CI-LAST-PROCESSED comment, whatever the
\* document it started from.
WatermarkUnique ==
  Persisted => /\ Occurrences(changelog[1], GeneratedOpen) <= 1
               /\ Occurrences(changelog[1], ProcessedOpen) <= 1

\* a run has succeeded on the document that held two stale pairs
WatermarkUniqueWitness ==
  /\ Persisted
  /\ Occurrences(DocumentAtCall, ProcessedOpen) = 2
  /\ Occurrences(changelog[1], ProcessedOpen) = 1
  /\ Occurrences(changelog[1], GeneratedOpen) = 1

\* C3: after a successful non-preview run the hash of the CI-LAST-PROCESSED
\* comment of the document is the HEAD hash at the time of the call.
WatermarkIsHeadAtCall ==
  Persisted => LastProcessedCommit(changelog[1]) = <<atCall.head>>

\* C4: when the entry lines a run renders are already in the Unreleased
\* block, the block holds after the run the entry lines it held before, each
\* once: nothing is doubled and nothing is missing.
DedupConvergence ==
  (/\ Persisted
   /\ NoDuplicates(EntryLines(UnreleasedBlock(DocumentAtCall)))
   /\ Range(EntryLines(newContent)) \subseteq Range(EntryLines(UnreleasedBlock(DocumentAtCall))))
    => /\ NoDuplicates(EntryLines(UnreleasedBlock(changelog[1])))
       /\ Range(EntryLines(UnreleasedBlock(changelog[1])))
            = Range(EntryLines(UnreleasedBlock(DocumentAtCall)))

\* C5: while a preview call runs, and when it has returned text, returned
\* null or thrown, the document is the one it found.
PreviewNeverWrites ==
  (pc # "idle" /\ previewMode) => changelog = atCall.changelog

\* a preview call has returned the rendered text
PreviewNeverWritesWitness ==
  /\ pc = "done" /\ previewMode /\ outcome = "returned"
  /\ result = <<newContent>> /\ Trim(newContent) # ""
  /\ changelog = atCall.changelog

\* C6: when a step of a non-preview run fails (the commit query, the read,
\* the hash lookup or the write), the document is the previous version.
NoPartialWrite ==
  (pc = "done" /\ ~previewMode /\ (outcome = "threw" \/ latestCommit = "unknown"))
    => changelog = atCall.changelog

\* C7: when the commit query or the hash lookup fails, the run throws and
\* the document is not written.
UpstreamFailureIsFatal ==
  (pc = "done" /\ (error = "Failed to generate changelog: " \o FailedToGetCommits
                   \/ latestCommit = "unknown"))
    => (outcome = "threw" /\ changelog = atCall.changelog)

\* C8: after a successful non-preview run the release blocks of the document
\* are those of the document the run found (up to white space at the end of
\* the file).
ReleaseBlocksUntouched ==
  Persisted => Trim(ReleaseBlocks(changelog[1])) = Trim(ReleaseBlocks(DocumentAtCall))

\* C9: when the commit query has succeeded and the entries parsed from its
\* commits render to nothing (no commit, or every one filtered out or
\* dropped), the call is over, it has returned null, and the document and
\* its watermark are those it found.
InputExhaustionIsNoOp ==
  (/\ pc \notin {"idle", "getCommits"}
   /\ error # "Failed to generate changelog: " \o FailedToGetCommits
   /\ Trim(SectionContentOf(entries)) = "")
    => (pc = "done" /\ outcome = "returned" /\ result = <<>>
        /\ changelog = atCall.changelog)

\* a call whose commits were all filtered out has returned null
InputExhaustionIsNoOpWitness ==
  /\ pc = "done" /\ outcome = "returned" /\ result = <<>>
  /\ commits # <<>>
  /\ Trim(Render(commits)) = ""
  /\ changelog = atCall.changelog

SectionsReorderedByMerge ==
  /\ Persisted
  /\ SectionTitles(UnreleasedBlock(DocumentAtCall)) = <<"Fixed", "Added">>
  /\ SectionTitles(UnreleasedBlock(changelog[1])) = <<"Added", "Fixed">>

\* the batch of the run is the single message m
OnlyMessage(m) == Len(commits) = 1 /\ commits[1].message = m

\* C11: a message type(scope): description with a type of the enumeration
\* is parsed into exactly that type, that scope and that description.
RoundTripClassification ==
  pc \in {"filter", "dedupe", "parsed"} =>
    \A t \in Range(CommitType) : \A s \in FormScopes : \A d \in FormDescriptions :
      OnlyMessage(Form(t, s, d)) =>
        /\ parsed[1].type = t
        /\ parsed[1].scope = s
        /\ parsed[1].description = d

\* the keyword groups of the fallback, in their priority
KeywordGroups ==
  <<[type |-> "fix", words |-> {"fix", "bug", "error"}],
    [type |-> "test", words |-> {"test", "spec"}],
    [type |-> "docs", words |-> {"doc", "readme"}],
    [type |-> "refactor", words |-> {"refactor", "cleanup"}],
    [type |-> "perf", words |-> {"performance", "optimize"}],
    [type |-> "security", words |-> {"security", "vulnerability"}],
    [type |-> "ci", words |-> {"ci", "pipeline", "workflow"}],
    [type |-> "chore", words |-> {"dependency", "deps", "version"}]>>

GroupHits(message, k) ==
  \E w \in KeywordGroups[k].words : Includes(ToLowerCase(message), w)

FirstGroupType(message) ==
  IF \E k \in 1..Len(KeywordGroups) : GroupHits(message, k)
    THEN KeywordGroups[Min({k \in 1..Len(KeywordGroups) : GroupHits(message, k)})].type
    ELSE "feat"

\* x is ": " followed by a description
IsColonDescription(x) == StartsWith(x, ": ") /\ Len(x) > 2

\* the message has the conventional format: a type of the enumeration, an
\* optional scope of one or more characters other than ")" in parentheses,
\* ": " and a description
IsConventional(message) ==
  \E t \in Range(CommitType) :
    /\ StartsWith(message, t)
    /\ \/ IsColonDescription(Drop(message, Len(t)))
       \/ /\ At(message, Len(t) + 1) = "("
          /\ \E c \in (Len(t) + 3)..Len(message) :
               /\ At(message, c) = ")"
               /\ \A i \in (Len(t) + 2)..(c - 1) : At(message, i) # ")"
               /\ IsColonDescription(Drop(message, c))

\* C17: a message that has not the conventional format is parsed into no
\* scope, the message itself as description, and the type of the first keyword
\* group, in the priority of the groups, that hits the lower-cased message,
\* feat when none hits.
FallbackTypeInference ==
  pc \in {"filter", "dedupe", "parsed"} =>
    \A i \in 1..Len(commits) :
      ~IsConventional(commits[i].message) =>
        /\ parsed[i].scope = ""
        /\ parsed[i].description = commits[i].message
        /\ parsed[i].type = FirstGroupType(commits[i].message)

\* a message that hits the fix group and the test group has been parsed as fix
FallbackTypeInferenceWitness ==
  /\ pc = "filter"
  /\ OnlyMessage("fix failing test")
  /\ parsed[1].type = "fix"

\* C18: every commit record of the query gets an entry, its type is one of
\* the enumeration and its description is not empty after trimming.
ParsedEntryInvariant ==
  pc \in {"filter", "dedupe", "parsed"} =>
    /\ Len(parsed) = Len(commits)
    /\ \A i \in 1..Len(parsed) :
         /\ parsed[i].type \in Range(CommitType)
         /\ Trim(parsed[i].description) # ""

\* a message with an unknown word before the colon has been parsed as feat
ParsedEntryInvariantWitness ==
  /\ pc = "filter"
  /\ OnlyMessage("feature: new thing")
  /\ parsed[1].type = "feat"
  /\ parsed[1].description = "feature: new thing"

\* d is word.word: word characters around a single dot
IsBareFileName(d) ==
  /\ Occurrences(d, ".") = 1
  /\ ~StartsWith(d, ".")
  /\ At(d, Len(d)) # "."
  /\ \A i \in 1..Len(d) : At(d, i) \in WordChars \cup {"."}

\* d holds "found <digits> staged files"
HoldsStagedFilesChatter(d) ==
  \E i \in 1..Len(d) : \E j \in (i + 6)..Len(d) :
    /\ IsAt(d, i, "found ")
    /\ \A k \in (i + 6)..j : At(d, k) \in Digits
    /\ IsAt(d, j + 1, " staged files")

\* the deny-list on the lower-cased, trimmed description
IsNoise(description) ==
  LET d == Trim(ToLowerCase(description))
  IN \/ StartsWith(d, "merge ")
     \/ HoldsStagedFilesChatter(d)
     \/ Includes(d, "generating ai commit message")
     \/ Includes(d, "ai message generated")
     \/ d \in {"wip", "temp", "tmp"}
     \/ IsBareFileName(d)
     \/ d \in {"update", "fix", "add", "remove", "change", "delete", "create", "test",
               "debug"}

RECURSIVE WithoutNoise(_)
WithoutNoise(es) ==
  IF es = <<>> THEN <<>>
  ELSE IF IsNoise(Head(es).description) THEN WithoutNoise(Tail(es))
  ELSE <<Head(es)>> \o WithoutNoise(Tail(es))

\* C19: the filter drops exactly the entries whose lower-cased, trimmed
\* description is on the deny-list, and keeps every other entry.
WorthinessFilter ==
  pc \in {"dedupe", "parsed"} => filtered = WithoutNoise(parsed)

\* an upper-case placeholder word has been dropped
WorthinessFilterWitness ==
  /\ pc = "dedupe"
  /\ OnlyMessage("WIP")
  /\ filtered = <<>>

\* a description that only starts like a placeholder has been kept
WorthinessFilterKeeps ==
  /\ pc = "dedupe"
  /\ OnlyMessage("wip it")
  /\ Len(filtered) = 1

\* the key of the deduplication: type, scope, normalized description
KeyOf(entry) ==
  <<entry.type, entry.scope, Trim(CollapseWhiteSpace(ToLowerCase(entry.description)))>>

\* C20: the deduplicated entries have pairwise different keys, every key of
\* the input is the key of an output entry, and every output entry is an
\* input entry with the longest raw description of its key.
IntraRunDedupe ==
  pc = "parsed" =>
    /\ \A i \in 1..Len(entries) : \A j \in 1..Len(entries) :
         i # j => KeyOf(entries[i]) # KeyOf(entries[j])
    /\ {KeyOf(filtered[i]) : i \in 1..Len(filtered)}
         = {KeyOf(entries[i]) : i \in 1..Len(entries)}
    /\ \A i \in 1..Len(entries) :
         /\ entries[i] \in Range(filtered)
         /\ \A j \in 1..Len(filtered) :
              KeyOf(filtered[j]) = KeyOf(entries[i])
                => Len(filtered[j].description) <= Len(entries[i].description)

\* the document the merge of the running call was given
ExistingContent == readExistingChangelog(atCall.changelog)

\* the running call has merged its new content into the document
Merged == pc \in {"hash", "write"} \/ (pc = "done" /\ result # <<>>)

\* the body of the Unreleased block of a document, trimmed
UnreleasedBody(doc) == Trim(Drop(UnreleasedBlock(doc), Len(UnreleasedHeading)))

\* the lines of a text that are neither blank nor a comment
RECURSIVE ContentLinesOf(_)
ContentLinesOf(lines) ==
  IF lines = <<>> THEN <<>>
  ELSE IF Trim(Head(lines)) = "" \/ StartsWith(Trim(Head(lines)), "<!--")
    THEN ContentLinesOf(Tail(lines))
    ELSE <<Head(lines)>> \o ContentLinesOf(Tail(lines))

\* the document has an Unreleased heading whose body is empty or holds
\* comments only
HasEmptyUnreleased(doc) ==
  /\ Includes(doc, UnreleasedHeading)
  /\ ContentLinesOf(Lines(UnreleasedBody(doc))) = <<>>

\* C12: when the document given to the merge has an Unreleased heading whose
\* body is empty or holds only a stale watermark pair, the merged document
\* has exactly one Unreleased heading and its body is the new content.
EmptyUnreleasedReplaced ==
  Merged /\ HasEmptyUnreleased(ExistingContent) =>
    /\ Occurrences(updatedContent, UnreleasedHeading) = 1
    /\ UnreleasedBody(updatedContent) = Trim(newContent)

\* the same for a block that holds a stale watermark pair
StaleUnreleasedReplaced ==
  Merged /\ HasEmptyUnreleased(ExistingContent)
         /\ Includes(UnreleasedBody(ExistingContent), GeneratedOpen) =>
    /\ Occurrences(updatedContent, UnreleasedHeading) = 1
    /\ UnreleasedBody(updatedContent) = Trim(newContent)

\* the bootstrap document has been merged into
BootstrapMerged == Merged /\ atCall.changelog = <<>>

\* the entry lines of a text, each with the title of the "### " heading it
\* stands under ("" before the first heading), in the order of the text
RECURSIVE SectionedFrom(_, _)
SectionedFrom(lines, title) ==
  IF lines = <<>> THEN <<>>
  ELSE LET line == Trim(Head(lines))
       IN IF StartsWith(line, "### ")
            THEN SectionedFrom(Tail(lines), Trim(Drop(line, 4)))
          ELSE IF line = "" \/ StartsWith(line, "#") \/ StartsWith(line, "<!--")
            THEN SectionedFrom(Tail(lines), title)
          ELSE <<[section |-> title, content |-> line]>>
               \o SectionedFrom(Tail(lines), title)

SectionedLines(text) == SectionedFrom(Lines(text), "")

\* the entry is in the lines, or a line of its section with the same
\* normalized text and at least its length is
KeptIn(entry, lines) ==
  \E k \in 1..Len(lines) :
    /\ lines[k].section = entry.section
    /\ normalizeChangelogEntry(lines[k].content) = normalizeChangelogEntry(entry.content)
    /\ Len(lines[k].content) >= Len(entry.content)

\* the Unreleased block of the document holds sections with entries and no
\* watermark
HasUnreleasedEntries(doc) ==
  /\ Includes(doc, UnreleasedHeading)
  /\ ~Includes(UnreleasedBody(doc), GeneratedOpen)
  /\ \E k \in 1..Len(SectionedLines(UnreleasedBody(doc))) :
       SectionedLines(UnreleasedBody(doc))[k].section # ""

\* C13: when the Unreleased block holds entries and no watermark, every entry
\* line of the existing body and of the new content, scoped lines included,
\* is in the merged Unreleased body, unless a line of the same section with
\* the same normalized text and at least the same length is kept.
MergeKeepsEveryEntry ==
  Merged /\ HasUnreleasedEntries(ExistingContent) =>
    \A entry \in Range(SectionedLines(UnreleasedBody(ExistingContent)))
                   \cup Range(SectionedLines(newContent)) :
      KeptIn(entry, SectionedLines(UnreleasedBody(updatedContent)))

\* the same for the lines that start with a bullet
MergeKeepsEveryBullet ==
  Merged /\ HasUnreleasedEntries(ExistingContent) =>
    \A entry \in Range(SectionedLines(UnreleasedBody(ExistingContent)))
                   \cup Range(SectionedLines(newContent)) :
      StartsWith(entry.content, "-")
        => KeptIn(entry, SectionedLines(UnreleasedBody(updatedContent)))

\* a new bullet has given way to the longer spelling the document holds
LongerSpellingKept ==
  /\ Merged /\ HasUnreleasedEntries(ExistingContent)
  /\ \E entry \in Range(SectionedLines(newContent)) :
       /\ StartsWith(entry.content, "-")
       /\ entry \notin Range(SectionedLines(UnreleasedBody(updatedContent)))

\* the position of the first line of a document that starts with "## ",
\* Len(doc) + 1 when there is none
FirstReleaseHeading(doc) ==
  LET I == {i \in 1..Len(doc) : IsAt(doc, i, "## ") /\ (i = 1 \/ At(doc, i - 1) = "\n")}
  IN IF I = {} THEN Len(doc) + 1 ELSE Min(I)

\* merged is doc with one Unreleased block holding body put in at position
\* at, nothing but blank space added around it
InsertedAt(merged, doc, at, body) ==
  LET u == IndexOf(merged, UnreleasedHeading, 1)
      e == IndexOf(merged, "\n## ", u + Len(UnreleasedHeading))
  IN /\ Occurrences(merged, UnreleasedHeading) = 1
     /\ UnreleasedBody(merged) = Trim(body)
     /\ u >= at
     /\ Take(merged, at - 1) = Take(doc, at - 1)
     /\ Trim(SubSeq(merged, at, u - 1)) = ""
     /\ IF at > Len(doc) THEN e = 0 ELSE e # 0 /\ Drop(merged, e) = Drop(doc, at - 1)

UnreleasedBlockAppended ==
  /\ Merged
  /\ ~Includes(ExistingContent, UnreleasedHeading)
  /\ FirstReleaseHeading(ExistingContent) > Len(ExistingContent)
  /\ Includes(updatedContent, UnreleasedHeading)

\* the Unreleased block of the document holds text, but no entry under a
\* "### " heading and no watermark
IsMalformed(doc) ==
  /\ Includes(doc, UnreleasedHeading)
  /\ ContentLinesOf(Lines(UnreleasedBody(doc))) # <<>>
  /\ ~Includes(UnreleasedBody(doc), GeneratedOpen)
  /\ \A k \in 1..Len(SectionedLines(UnreleasedBody(doc))) :
       SectionedLines(UnreleasedBody(doc))[k].section = ""

\* C15: when the Unreleased block of the document cannot be read as sections
\* and entries, a non-preview run with new worthy entries returns, and the
\* Unreleased block of the document it writes holds exactly the new entries
\* under their headings.
MalformedBlockReplaced ==
  ~previewMode /\ IsMalformed(ExistingContent) =>
    /\ pc = "done" => outcome = "returned"
    /\ Merged => SectionedLines(UnreleasedBody(updatedContent)) = SectionedLines(newContent)
    /\ Persisted => SectionedLines(UnreleasedBody(changelog[1])) = SectionedLines(newContent)

\* the same for new entries that are all bullets
MalformedBlockReplacedByBullets ==
  /\ ~previewMode /\ IsMalformed(ExistingContent)
  /\ \A k \in 1..Len(SectionedLines(newContent)) :
       StartsWith(SectionedLines(newContent)[k].content, "-")
  => /\ pc = "done" => outcome = "returned"
     /\ Merged => SectionedLines(UnreleasedBody(updatedContent)) = SectionedLines(newContent)
     /\ Persisted => SectionedLines(UnreleasedBody(changelog[1])) = SectionedLines(newContent)

\* a malformed block has been overwritten with two new entries
MalformedBlockOverwritten ==
  /\ Persisted /\ IsMalformed(ExistingContent)
  /\ Len(SectionedLines(newContent)) = 2
  /\ SectionedLines(UnreleasedBody(changelog[1])) = SectionedLines(newContent)

\* the text of the file, "" when it is absent
FileText(file) == IF file = <<>> THEN "" ELSE file[1]

\* the file after one call of generateChangelog(false) that nothing
\* interrupts, on this file and this history
UninterruptedRun(file, h) ==
  IF AfterCommits(getCommitsSinceLastCI(file, h).commits, FALSE).next = "return"
    THEN file
    ELSE <<addMetadata(
             mergeWithExistingChangelog(
               readExistingChangelog(file),
               AfterCommits(getCommitsSinceLastCI(file, h).commits, FALSE).newContent),
             getLatestCommitHash(h, TRUE), Timestamp(1))>>

\* the Unreleased entries and the watermark hash of the two files are the same
SameEntriesAndWatermark(file, other) ==
  /\ SectionedLines(UnreleasedBody(FileText(file)))
       = SectionedLines(UnreleasedBody(FileText(other)))
  /\ LastProcessedCommit(FileText(file)) = LastProcessedCommit(FileText(other))

\* the running call is a non-preview call that has come to its end without
\* failure, after a non-preview call that was aborted, with no commit between
Restarted ==
  /\ pc = "done" /\ ~previewMode /\ outcome = "returned"
  /\ prev.outcome = "threw" /\ ~prev.preview
  /\ prev.head = atCall.head

\* C16: when a non-preview run is aborted and generate(false) is called again
\* on the same repository, the document after the second run has the
\* Unreleased entries and the watermark hash that one uninterrupted run on
\* the document of the first would have given.
CrashRestartSafe ==
  Restarted => SameEntriesAndWatermark(changelog, UninterruptedRun(prev.changelog, history))

\* the same when the aborted run has left the file as it found it and the
\* second run could ask git for HEAD
CrashRestartSafeFileIntact ==
  Restarted /\ atCall.changelog = prev.changelog /\ latestCommit # "unknown"
    => SameEntriesAndWatermark(changelog, UninterruptedRun(prev.changelog, history))

\* a second run has written the document after an aborted one
RestartedAndWritten == Restarted /\ result # <<>>

(***************************************************************************)
(* One merge of a rendered entry into a document that holds another        *)
(* spelling of the same change.                                            *)
(***************************************************************************)
\* spellings of one change as lines of a document: they differ in the
\* bullet marker, the bold scope marker, a ticket prefix, case or spacing
LineSpellings ==
  {"- resolve timeout issue",
   "-   resolve timeout issue",
   "- Resolve  Timeout issue",
   "- **api**: resolve timeout issue",
   "**api**: resolve timeout issue",
   "- DEV-12 resolve timeout issue",
   "- DEV-12, resolve timeout issue",
   "- DEV-12: resolve timeout issue",
   "- Task ID: resolve timeout issue"}

\* commit messages whose rendered line is one of the spellings
SpellingMessages ==
  {"fix: resolve timeout issue",
   "fix(api): resolve timeout issue",
   "fix: DEV-12 resolve timeout issue",
   "fix: DEV-12: resolve timeout issue"}

\* a document whose Unreleased block holds the line under Fixed
DocumentWithLine(line) ==
  "# Changelog\n\n## [Unreleased]\n\n### Fixed\n\n" \o line \o "\n\n" \o ReleaseBlock

\* generateChangelog(false) has been called
DedupeInit ==
  /\ history \in {HistoryOf(<<m>>) : m \in SpellingMessages}
  /\ changelog \in {<<DocumentWithLine(line)>> : line \in LineSpellings}
  /\ pc = "getCommits"
  /\ previewMode = FALSE
  /\ commits = <<>>
  /\ parsed = <<>>
  /\ filtered = <<>>
  /\ entries = <<>>
  /\ newContent = ""
  /\ updatedContent = ""
  /\ latestCommit = ""
  /\ finalContent = ""
  /\ outcome = "none"
  /\ error = ""
  /\ result = <<>>
  /\ runs = 1
  /\ clock = 1
  /\ atCall = [changelog |-> changelog, head |-> HeadHash(history)]
  /\ prev = NoCall
  /\ NoClient

DedupeNext ==
  \/ GetCommits
  \/ ReadExisting
  \/ GetLatestCommitHash(TRUE)

DedupeSpec == DedupeInit /\ [][DedupeNext]_vars

\* the longer of two lines, the first when they are as long
Longer(a, b) == IF Len(b) > Len(a) THEN b ELSE a

\* the line of the document the call found, and the line it rendered
ExistingLine == SectionedLines(UnreleasedBody(ExistingContent))[1].content

RenderedLine == SectionedLines(newContent)[1].content

\* C21: when a document line and a rendered line of the same section differ
\* only in bullet marker, bold scope marker, ticket prefix, case or spacing,
\* the merged Unreleased body holds one line, the longer of the two.
CrossRunDedupe ==
  (/\ Merged
   /\ ExistingLine \in LineSpellings
   /\ RenderedLine \in LineSpellings)
    => SectionedLines(UnreleasedBody(updatedContent))
         = <<[section |-> "Fixed", content |-> Longer(ExistingLine, RenderedLine)]>>

\* the same when both lines start with a bullet and a ticket prefix is not
\* followed by a colon
CrossRunDedupeOfBullets ==
  (/\ Merged
   /\ ExistingLine \in LineSpellings
   /\ RenderedLine \in LineSpellings
   /\ StartsWith(ExistingLine, "-") /\ StartsWith(RenderedLine, "-")
   /\ ~Includes(ExistingLine, "12:") /\ ~Includes(RenderedLine, "12:"))
    => SectionedLines(UnreleasedBody(updatedContent))
         = <<[section |-> "Fixed", content |-> Longer(ExistingLine, RenderedLine)]>>

\* a rendered bullet has given way to a longer spelling with a scope marker
CrossRunDedupeKeepsLonger ==
  /\ Merged
  /\ ExistingLine = "- **api**: resolve timeout issue"
  /\ RenderedLine = "- resolve timeout issue"
  /\ SectionedLines(UnreleasedBody(updatedContent))
       = <<[section |-> "Fixed", content |-> ExistingLine]>>

(***************************************************************************)
(* One preview call: the commits are parsed, filtered, deduplicated,       *)
(* grouped and rendered.                                                   *)
(***************************************************************************)
MaxRendered == 2

RenderMessages ==
  {"fix(api): resolve timeout issue",
   "feat(ui): Add dark mode toggle",
   "feat: add dark mode toggle",
   "feat: dark mode toggle",
   "fix: crash on start up",
   "feat: short one",
   "docs: update README.md",
   "feat: add update",
   "feat: add merge request template",
   "perf: HTTP caching for assets",
   "fix: handle errors in parser.ts",
   "fix: handle errors in"}

\* generateChangelog(true) has been called on a repository without changelog
RenderInit ==
  /\ history \in {HistoryOf(batch) :
                    batch \in UNION {BatchesOf(RenderMessages, n) : n \in 1..MaxRendered}}
  /\ changelog = <<>>
  /\ pc = "getCommits"
  /\ previewMode = TRUE
  /\ commits = <<>>
  /\ parsed = <<>>
  /\ filtered = <<>>
  /\ entries = <<>>
  /\ newContent = ""
  /\ updatedContent = ""
  /\ latestCommit = ""
  /\ finalContent = ""
  /\ outcome = "none"
  /\ error = ""
  /\ result = <<>>
  /\ runs = 1
  /\ clock = 1
  /\ atCall = [changelog |-> changelog, head |-> HeadHash(history)]
  /\ prev = NoCall
  /\ NoClient

RenderNext == GetCommits

RenderSpec == RenderInit /\ [][RenderNext]_vars

\* the call has rendered its entries
Rendered == pc = "done" /\ commits # <<>>

\* the entries whose cleaned description reaches the floor
Emitted(es) ==
  SelectSeq(es, LAMBDA e : Len(CleanDescription(e.description)) >= MinDescriptionLength)

\* the line the format gives an entry
FormatLine(e) ==
  IF e.scope # "" THEN "**" \o e.scope \o "**: " \o CleanDescription(e.description)
  ELSE "- " \o CleanDescription(e.description)

\* the text is a sequence of sections "### title", a blank line, entry
\* lines, with one blank line between two sections: at is "start" before a
\* heading, "blank" after it, "entries" within the lines of a section
RECURSIVE IsSectionText(_, _)
IsSectionText(lines, at) ==
  IF lines = <<>> THEN at = "entries"
  ELSE LET line == Head(lines)
       IN CASE at = "start" ->
                 StartsWith(line, "### ") /\ IsSectionText(Tail(lines), "heading")
            [] at = "heading" -> line = "" /\ IsSectionText(Tail(lines), "first")
            [] at = "first" ->
                 line # "" /\ ~StartsWith(line, "### ")
                 /\ IsSectionText(Tail(lines), "entries")
            [] at = "entries" ->
                 IF line = "" THEN IsSectionText(Tail(lines), "start")
                 ELSE ~StartsWith(line, "### ") /\ IsSectionText(Tail(lines), "entries")

LineText(line) ==
  IF StartsWith(line, "- ") THEN Drop(line, 2)
  ELSE IF StartsWith(line, "**") /\ Includes(line, "**: ")
    THEN Drop(line, IndexOf(line, "**: ", 1) + 3)
  ELSE line

\* C23: no rendered entry line has a text shorter than 10 characters, an
\* entry whose cleaned description is shorter than 10 characters has no
\* line, and a section has a heading only if one of its entries has a line.
RenderFloor ==
  Rendered =>
    /\ \A k \in 1..Len(SectionedLines(newContent)) :
         Len(LineText(SectionedLines(newContent)[k].content)) >= MinDescriptionLength
    /\ \A e \in Range(entries) :
         Len(CleanDescription(e.description)) < MinDescriptionLength
           => \A k \in 1..Len(SectionedLines(newContent)) :
                LineText(SectionedLines(newContent)[k].content)
                  # CleanDescription(e.description)
    /\ Range(SectionTitles(newContent))
         = {typeTitles[e.type] : e \in Range(Emitted(entries))}
    /\ NoDuplicates(SectionTitles(newContent))

\* an entry under the floor has been skipped, and its section with it, next
\* to an entry that was rendered
RenderFloorWitness ==
  /\ Rendered
  /\ Len(entries) = 2
  /\ entries[1].description = "short one"
  /\ newContent = "### Fixed\n\n- crash on start up"

\* the entry has a line in the rendered text, under the title of its type
HasLine(e) ==
  [section |-> typeTitles[e.type], content |-> FormatLine(e)]
    \in Range(SectionedLines(newContent))

\* C25 as stated: an entry that has passed the worthiness filter and whose
\* cleaned description is one of the single words of the exclusion list has
\* a line in the rendered text.
CleanedToExcludedWordEmitted ==
  Rendered =>
    \A e \in Range(entries) :
      CleanDescription(e.description) \in MeaninglessWords => HasLine(e)

\* C25, amended: the filter is not applied to the cleaned description: an
\* entry that has passed it has a line whenever its cleaned description has
\* 10 characters or more, also when the filter would reject that
\* description; an entry cleaned to one of the single words of the exclusion
\* list has no line, each of these words being shorter than the floor.
FilterBeforeCleanup ==
  Rendered =>
    \A e \in Range(entries) :
      /\ Len(CleanDescription(e.description)) >= MinDescriptionLength => HasLine(e)
      /\ CleanDescription(e.description) \in MeaninglessWords => ~HasLine(e)
      /\ \A w \in MeaninglessWords : Len(w) < MinDescriptionLength

\* an entry cleaned to a description the filter rejects has been rendered,
\* and an entry cleaned to "update" has passed the filter and has no line
FilterBeforeCleanupWitness ==
  /\ Rendered
  /\ Len(entries) = 2
  /\ CleanDescription(entries[1].description) = "update"
  /\ ~isChangelogWorthy([entries[2] EXCEPT !.description = CleanDescription(@)])
  /\ newContent = "### Added\n\n- merge request template"

\* the text of the block from its first watermark comment on, trimmed
WatermarkOf(block) ==
  IF Includes(block, GeneratedOpen)
    THEN Trim(Drop(block, IndexOf(block, GeneratedOpen, 1) - 1))
    ELSE ""

\* the text of the block before its first watermark comment
BeforeWatermark(block) ==
  IF Includes(block, GeneratedOpen)
    THEN Take(block, IndexOf(block, GeneratedOpen, 1) - 1)
    ELSE block

RacingCommit(c) ==
  /\ pc \in {"read", "hash"}
  /\ Len(history) < MaxCommits
  /\ history' = Append(history, c)
  /\ UNCHANGED <<changelog, pc, previewMode, locals, outcome, error, result, runs, clock,
                 atCall, prev, parserLocals, client>>

RaceNext ==
  \/ \E c \in CommitChoices : GitCommit(c)
  \/ \E c \in CommitChoices : RacingCommit(c)
  \/ Call(FALSE)
  \/ GetCommits
  \/ ReadExisting
  \/ GetLatestCommitHash(TRUE)
  \/ WriteFile
  \/ Settle

RaceSpec == Init /\ [][RaceNext]_vars

\* the position in the history of the watermark of the file, 0 when the file
\* has none or names no commit of the history
WatermarkPosition(file) ==
  IF LastProcessedCommit(FileText(file)) = <<>> THEN 0
  ELSE Resolve(history, LastProcessedCommit(FileText(file))[1])

\* the running call has processed the i-th commit of the history
Processed(i) ==
  \E k \in 1..Len(commits) : commits[k].hash = Abbreviate(CommitHash(i))

\* C26: after a successful non-preview run every commit that is no merge
\* and lies after the watermark the run found, up to the watermark it
\* stamped, is among the commits the run processed.
NoCommitSkipped ==
  Persisted =>
    \A i \in (WatermarkPosition(atCall.changelog) + 1)..WatermarkPosition(changelog) :
      ~history[i].merge => Processed(i)

\* the same for the runs during which no commit has landed
NoCommitSkippedWithoutRace ==
  Persisted /\ atCall.head = HeadHash(history) =>
    \A i \in (WatermarkPosition(atCall.changelog) + 1)..WatermarkPosition(changelog) :
      ~history[i].merge => Processed(i)

\* a run without racing commit has stamped a commit it processed
StampedWithoutRace ==
  /\ Persisted /\ atCall.head = HeadHash(history)
  /\ WatermarkPosition(changelog) > WatermarkPosition(atCall.changelog)
  /\ Processed(WatermarkPosition(changelog))

\* C27: after a successful non-preview run the document holds exactly one
\* Unreleased heading; the documents the first run starts from hold at most
\* one.
SingleUnreleasedHeading ==
  Persisted => Occurrences(changelog[1], UnreleasedHeading) = 1

\* the same for the runs that found a file with at most one heading
SingleUnreleasedHeadingInFile ==
  (/\ Persisted /\ atCall.changelog # <<>>
   /\ Occurrences(FileText(atCall.changelog), UnreleasedHeading) <= 1)
    => Occurrences(changelog[1], UnreleasedHeading) = 1

\* a run has merged into a file that held the heading and has kept it single
HeadingKeptSingle ==
  /\ Persisted /\ atCall.changelog # <<>>
  /\ Occurrences(FileText(atCall.changelog), UnreleasedHeading) = 1
  /\ Occurrences(changelog[1], UnreleasedHeading) = 1

\* C28: the text one run renders never holds two identical entry lines in
\* the same section.
NoDuplicateLinesRendered ==
  Rendered => NoDuplicates(SectionedLines(newContent))

\* the entries one run renders have pairwise different deduplication keys
RenderedKeysDiffer ==
  Rendered =>
    \A i \in 1..Len(entries) : \A j \in 1..Len(entries) :
      i # j => EntryKey(entries[i]) # EntryKey(entries[j])

\* two entries with different keys have been rendered
TwoEntriesRendered ==
  Rendered /\ Len(SectionedLines(newContent)) = 2

(***************************************************************************)
(* The runs that follow the init command: CHANGELOG.md is the document     *)
(* createInitialChangelog of commands/init.ts has written.                 *)
(***************************************************************************)
\* const initialChangelog of init's createInitialChangelog
initialChangelog ==
  "# Changelog\n\n"
  \o "All notable changes to this project will be documented in this file.\n\n"
  \o "The format is based on [Keep a Changelog](https://keepachangelog.com/en/1.0.0/),\n"
  \o "and this project adheres to [Semantic Versioning](https://semver.org/spec/v2.0.0.html).\n\n"
  \o "## [Unreleased]\n\n"
  \o "### Added\n\n"
  \o "- **dev-tools**: AI-powered commit message generation system\n"
  \o "- **dev-tools**: automated changelog generation via CI/CD\n\n"
  \o "### Maintenance\n\n"
  \o "- **deps**: added AI development tools integration\n\n"
  \o "<!-- Generated: 2023-12-31T00:00:00.000Z Commit: initial -->\n"
  \o "<!-- CI-LAST-PROCESSED: initial -->\n"

\* init has run in a repository without CHANGELOG.md
AfterInitCommand ==
  /\ history \in InitialHistories
  /\ changelog = <<initialChangelog>>
  /\ pc = "idle"
  /\ previewMode = FALSE
  /\ commits = <<>>
  /\ parsed = <<>>
  /\ filtered = <<>>
  /\ entries = <<>>
  /\ newContent = ""
  /\ updatedContent = ""
  /\ latestCommit = ""
  /\ finalContent = ""
  /\ outcome = "none"
  /\ error = ""
  /\ result = <<>>
  /\ runs = 0
  /\ clock = 1
  /\ atCall = [changelog |-> <<>>, head |-> ""]
  /\ prev = NoCall
  /\ NoClient

InitCommandSpec == AfterInitCommand /\ [][Next]_vars

\* the document holds a CI-LAST-PROCESSED comment
HoldsWatermark(file) ==
  file # <<>> /\ Occurrences(file[1], ProcessedOpen) > 0

\* C29: the CI-LAST-PROCESSED value a run finds in the document, written by
\* init or by the run before it, is recognised by the reader of the
\* watermark, so the range queried starts after it.
WatermarkAgreement ==
  pc # "idle" /\ HoldsWatermark(atCall.changelog)
    => LastProcessedCommit(atCall.changelog[1]) # <<>>

\* the same for the values that are commit hashes: the run that wrote one is
\* followed by a run that reads it
HashWatermarkAgreement ==
  /\ Persisted /\ latestCommit # "unknown"
       => LastProcessedCommit(changelog[1]) = <<latestCommit>>
  /\ (/\ pc # "idle" /\ prev.outcome = "returned" /\ ~prev.preview
      /\ HoldsWatermark(atCall.changelog)
      /\ Occurrences(atCall.changelog[1], ProcessedOpen \o " unknown") = 0
      /\ Occurrences(atCall.changelog[1], ProcessedOpen \o " initial") = 0)
       => LastProcessedCommit(atCall.changelog[1]) # <<>>

\* a run has read the hash the run before it wrote
HashWatermarkRead ==
  /\ pc = "done" /\ runs = 2 /\ prev.outcome = "returned" /\ ~prev.preview
  /\ HoldsWatermark(atCall.changelog)
  /\ LastProcessedCommit(atCall.changelog[1]) = <<prev.head>>

(***************************************************************************)
(* CursorClient.generateResponse: the retry loop around attemptGeneration. *)
(***************************************************************************)
\* Bound of the model: the largest maxRetries a caller configures
MaxRetries == 3

\* the defaults of the constructor and of generateResponse
DefaultMaxRetries == 2
DefaultRetryDelay == 2000
DefaultRetryMultiplier == 2
DelayCeiling == 10000

\* the maxRetries of the options a caller passes: <<>> when it passes none
ConfiguredMaxRetries == {<<>>} \cup {<<n>> : n \in 0..MaxRetries}

\* constructor: this.options = { ..., maxRetries: 2, ..., ...options }
CursorClient(configured) ==
  [maxRetries |-> IF configured = <<>> THEN DefaultMaxRetries ELSE configured[1]]

\* this.options.maxRetries || 2
EffectiveMaxRetries(opts) ==
  IF opts.maxRetries = 0 THEN DefaultMaxRetries ELSE opts.maxRetries

retryablePatterns ==
  <<"timeout", "etimedout", "econnreset", "econnrefused", "enotfound", "network",
    "connection", "temporarily unavailable", "service unavailable",
    "internal server error", "gateway timeout", "bad gateway", "command failed",
    "cursor cli execution failed", "execution error", "spawn", "no such file",
    "cannot use this model", "model not available", "model unavailable",
    "segmentation fault">>

\* errorMessage.toLowerCase(), by halves: the messages are long
RECURSIVE LowerCased(_)
LowerCased(s) ==
  IF Len(s) = 0 THEN ""
  ELSE IF Len(s) = 1 THEN LowerChar(At(s, 1))
  ELSE LowerCased(Take(s, Len(s) \div 2)) \o LowerCased(Drop(s, Len(s) \div 2))

isRetryableError(errorMessage) ==
  \E k \in 1..Len(retryablePatterns) :
    Includes(LowerCased(errorMessage), retryablePatterns[k])

\* getModelForAttempt with the model of the constructor, 'sonnet-4'
getModelForAttempt(n, models) ==
  LET preferredModel == "sonnet-4"
      fallbackModels == SelectSeq(models, LAMBDA m : m # preferredModel)
  IN IF n = 1 THEN preferredModel
     ELSE IF Len(fallbackModels) = 0 THEN "auto"
     ELSE fallbackModels[((n - 2) % Len(fallbackModels)) + 1]

\* what one exec of the CLI, or its set-up, comes to
ExecOutcomes ==
  {[kind |-> "stdout", text |-> "feat: add login form"],
   [kind |-> "stdout", text |-> ""],
   [kind |-> "error", text |-> "Command failed: cursor-agent --print"],
   [kind |-> "error", text |-> "Cannot use this model"],
   [kind |-> "setup", text |-> "ENOENT: no such file or directory"],
   [kind |-> "setup", text |-> "EACCES: permission denied"]}

\* the CursorResponse attemptGeneration resolves with
attemptGeneration(opts, n, exec) ==
  LET currentModel ==
        getModelForAttempt(n, <<"sonnet-4", "auto", "gpt-5", "opus-4.1">>)
      failed == "Cursor CLI execution failed: " \o exec.text
      advice ==
        "\n\nTried model: " \o currentModel
        \o "\nAvailable models: auto, sonnet-4, gpt-5, opus-4.1, grok"
        \o "\nTip: Use --model auto for automatic model selection"
        \o (IF n < EffectiveMaxRetries(opts) + 1
              THEN "\nRetrying with different model..." ELSE "")
  IN IF exec.kind = "setup"
       THEN [success |-> FALSE, message |-> "",
             error |-> "Failed to setup Cursor CLI call: " \o exec.text]
     ELSE IF exec.kind = "error"
       THEN [success |-> FALSE, message |-> "",
             error |-> IF Includes(exec.text, "Cannot use this model")
                         THEN failed \o advice ELSE failed]
     ELSE IF Trim(exec.text) = ""
       THEN [success |-> FALSE, message |-> "",
             error |-> "Cursor CLI returned empty response"]
     ELSE [success |-> TRUE, message |-> Trim(exec.text), error |-> ""]

RECURSIVE Pow(_, _)
Pow(b, e) == IF e = 0 THEN 1 ELSE b * Pow(b, e - 1)

\* Math.min(baseDelay * Math.pow(multiplier, attempt - 1), 10000)
RetryDelay(n) ==
  Min({DefaultRetryDelay * Pow(DefaultRetryMultiplier, n - 1), DelayCeiling})

\* a client has been constructed, with or without the CLI on the machine
ClientInit ==
  /\ history = <<>>
  /\ changelog = <<>>
  /\ pc = "idle"
  /\ previewMode = FALSE
  /\ commits = <<>>
  /\ parsed = <<>>
  /\ filtered = <<>>
  /\ entries = <<>>
  /\ newContent = ""
  /\ updatedContent = ""
  /\ latestCommit = ""
  /\ finalContent = ""
  /\ outcome = "none"
  /\ error = ""
  /\ result = <<>>
  /\ runs = 0
  /\ clock = 1
  /\ atCall = [changelog |-> <<>>, head |-> ""]
  /\ prev = NoCall
  /\ options \in {CursorClient(c) : c \in ConfiguredMaxRetries}
  /\ cursorPath \in {<<>>, <<"cursor-agent">>}
  /\ clientPc = "idle"
  /\ attempt = 0
  /\ lastError = ""
  /\ delay = 0
  /\ response = <<>>
  /\ attempts = 0

generator ==
  <<history, changelog, pc, previewMode, locals, outcome, error, result, runs, clock,
    atCall, prev, parserLocals>>

\* generateResponse(prompt) up to the first attemptGeneration
GenerateResponse ==
  /\ clientPc = "idle"
  /\ IF cursorPath = <<>>
       THEN /\ response' = <<[success |-> FALSE, message |-> "",
                              error |-> "Cursor CLI not found. Please install Cursor CLI for AI features."]>>
            /\ clientPc' = "returned"
            /\ UNCHANGED attempt
       ELSE /\ attempt' = 1
            /\ clientPc' = "attempt"
            /\ UNCHANGED response
  /\ UNCHANGED <<options, cursorPath, lastError, delay, attempts, generator>>

\* await this.attemptGeneration(prompt, attempt), then the code up to the
\* return or to the wait
AttemptGeneration(exec) ==
  /\ clientPc = "attempt"
  /\ attempts' = attempts + 1
  /\ \E r \in {attemptGeneration(options, attempt, exec)} :
       IF r.success
         THEN /\ response' = <<r>>
              /\ clientPc' = "returned"
              /\ UNCHANGED <<lastError, delay>>
       ELSE /\ lastError' = r.error
            /\ IF ~isRetryableError(r.error) \/ attempt = EffectiveMaxRetries(options) + 1
                 THEN /\ response' = <<r>>
                      /\ clientPc' = "returned"
                      /\ UNCHANGED delay
                 ELSE /\ delay' = RetryDelay(attempt)
                      /\ clientPc' = "wait"
                      /\ UNCHANGED response
  /\ UNCHANGED <<options, cursorPath, attempt, generator>>

\* the timer of the wait fires: attempt++ and the test of the loop
NextAttempt ==
  /\ clientPc = "wait"
  /\ attempt' = attempt + 1
  /\ IF attempt + 1 <= EffectiveMaxRetries(options) + 1
       THEN /\ clientPc' = "attempt"
            /\ UNCHANGED response
       ELSE /\ response' = <<[success |-> FALSE, message |-> "", error |-> lastError]>>
            /\ clientPc' = "returned"
  /\ UNCHANGED <<options, cursorPath, lastError, delay, attempts, generator>>

ClientNext ==
  \/ GenerateResponse
  \/ \E exec \in ExecOutcomes : AttemptGeneration(exec)
  \/ NextAttempt

ClientSpec == ClientInit /\ [][ClientNext]_vars

\* C30: generateResponse makes at most (configured maxRetries + 1)
\* generation attempts, for every configured maxRetries >= 0.
BoundedRetry ==
  attempts <= options.maxRetries + 1

\* the same with the maxRetries the loop uses, which is 2 when 0 is configured
BoundedRetryEffective ==
  /\ attempts <= EffectiveMaxRetries(options) + 1
  /\ options.maxRetries >= 1 => attempts <= options.maxRetries + 1

\* the call returns on the first success and on the first error that is not
\* retryable, and starts no attempt after it has returned
ReturnsAtOnce ==
  [][/\ clientPc = "returned" => UNCHANGED attempts
     /\ (attempts' = attempts + 1 /\ clientPc' # "returned")
          => isRetryableError(lastError') /\ response' = <<>>]_vars

\* every attempt the configuration allows has been made and has failed
RetriesExhausted ==
  /\ clientPc = "returned"
  /\ options.maxRetries >= 1
  /\ attempts = options.maxRetries + 1
  /\ ~response[1].success

====
